---- MODULE Spec2Model ----
(***************************************************************************)
(* Model of the spec-driven quality rule pipeline of                       *)
(* kiro-code-quality-guardian: SpecDrivenParser (statement extraction,     *)
(* ordered template dispatch, rule builders, validation, confidence        *)
(* filter, matcher/action linking), AnalysisService.applySpecDrivenRules   *)
(* (the execution engine) and the QualitySpecService / AnalysisService     *)
(* rule registry.                                                          *)
(*                                                                         *)
(* Text is modelled as a sequence of tokens: a line "WHEN x THEN y" is     *)
(* <<"WHEN","x","THEN","y">>, tokens being separated by single blanks.     *)
(* A token " " at either end of a raw line stands for a run of white       *)
(* space.  Regular expressions are evaluated on token boundaries.          *)
(* Confidences are integer percentages (0.9 is 90).                        *)
(***************************************************************************)
EXTENDS Integers, Sequences, FiniteSets, TLC

VARIABLES
  \* ---- SpecDrivenParser.parseQualitySpec (one compilation)
  pc,          \* position in parseQualitySpec
  content,     \* spec.content: sequence of raw lines
  statements,  \* result of extractRuleStatements
  idx,         \* loop variable i of parseQualitySpec (0-based, as in the code)
  rules,       \* const rules: ParsedRule[]
  errors,      \* const errors: ParseError[]
  warnings,    \* const warnings: string[]
  origin,      \* history: origin[k] is the 0-based loop index that pushed rules[k]
  result,      \* the returned SpecParseResult, or the thrown error
  ncompiles,   \* number of parseQualitySpec calls made on the parser so far
  previous,    \* history: what the call before this one returned
  \* ---- AnalysisService.applySpecDrivenRules (one execution)
  xpc,         \* position in applySpecDrivenRules
  request,     \* the AnalysisRequest: context.teamId, standards, content
  teamRules,   \* the rule array read from customRules (teamRules / globalRules)
  ridx,        \* index of the rule being evaluated (1-based)
  sidx,        \* index into request.standards (1-based)
  violations,  \* const violations: RuleViolation[]
  thrown,      \* history: the (pass, rule index) pairs whose try block threw
  \* ---- rule registry and specification store
  customRules, \* AnalysisService.customRules: identifier -> rules, or Absent
  specStorage, \* QualitySpecService.specStorage: identifier -> spec, or Absent
  upc,         \* per slot: position of a createQualitySpec / updateQualitySpec call
  uop,         \* per slot: the call's operation, new content, what it found stored
  ncalls,      \* number of store calls made so far
  apc,         \* position of the concurrent analysis
  observed,    \* history: what the analysis read from customRules, and when
  dret,        \* history: the last deleteQualitySpec call and what it returned
  \* ---- QualityGateConfigService and QualityGateService.enforceQualityGate
  configs,     \* QualityGateConfigService.configs: team -> configuration, or Absent
  nupdates,    \* number of updateConfig calls made so far
  gpc,         \* position in enforceQualityGate
  event,       \* the PreCommitEvent: teamId and changes
  config,      \* const config = this.configService.getConfig(event.teamId)
  filesToAnalyze,  \* const filesToAnalyze: the changes left by the filter
  gidx,        \* index of the file the loop is at (1-based)
  analysisResults, \* const analysisResults: AnalysisResult[]
  analysed,    \* history: the indices of filesToAnalyze analyzeCode was called for
  failed,      \* history: the indices whose analyzeCode call threw
  commitResult,    \* the returned CommitResult
  \* ---- NotificationService
  connections, \* NotificationService.connections: userId -> socket, or NoSocket
  sockets,     \* per socket: readyState, the userId of its listeners, isAlive
  latest,      \* history: the socket of each user's most recent connection
  delivered    \* history: the last sendRealTimeFeedback call and where it went

parserVars == <<pc, content, statements, idx, rules, errors, warnings, origin, result,
                ncompiles, previous>>
execVars == <<xpc, request, teamRules, ridx, sidx, violations, thrown>>
regVars == <<customRules, specStorage, upc, uop, ncalls, apc, observed, dret>>
gateVars == <<configs, nupdates, gpc, event, config, filesToAnalyze, gidx, analysisResults,
              analysed, failed, commitResult>>
noteVars == <<connections, sockets, latest, delivered>>
vars == <<parserVars, execVars, regVars, gateVars, noteVars>>

(***************************************************************************)
(* Bounds of the model.                                                    *)
(***************************************************************************)
MaxLines == 2        \* lines of a specification text
MaxCodeLines == 2    \* lines of a content buffer
MaxFaults == 1       \* matcher / action faults injected into one execution
MaxCalls == 3        \* calls of create / update / deleteQualitySpec
MaxCompiles == 2     \* parseQualitySpec calls on one parser
MaxInFlight == 2     \* create / update calls that have not returned yet
MaxUpdates == 1      \* updateConfig calls
MaxFiles == 2        \* changes of a PreCommitEvent
MaxSockets == 2      \* WebSocket connections made to the server
MaxRules == 3        \* rules of a list handed to validateRules

Min(S) == CHOOSE x \in S : \A y \in S : x <= y

(***************************************************************************)
(* Text helpers.                                                           *)
(***************************************************************************)
\* String.prototype.toLowerCase on one token.
Lower(t) ==
  CASE t = "WHEN" -> "when"
    [] t = "IF" -> "if"
    [] t = "THEN" -> "then"
    [] t = "SHALL" -> "shall"
    [] t = "MUST" -> "must"
    [] t = "Critical" -> "critical"
    [] t = "Foo" -> "foo"
    [] OTHER -> t

LowerText(toks) == [k \in 1..Len(toks) |-> Lower(toks[k])]

RECURSIVE TrimLeft(_)
TrimLeft(toks) ==
  IF toks # <<>> /\ Head(toks) = " " THEN TrimLeft(Tail(toks)) ELSE toks

RECURSIVE TrimRight(_)
TrimRight(toks) ==
  IF toks # <<>> /\ toks[Len(toks)] = " "
  THEN TrimRight(SubSeq(toks, 1, Len(toks) - 1)) ELSE toks

\* String.prototype.trim on a raw line.
Trim(toks) == TrimRight(TrimLeft(toks))

\* line.startsWith('#') || line.startsWith('//')
StartsWithComment(toks) == toks # <<>> /\ toks[1] \in {"#", "//", "#todo"}

\* Tokens that leave a group or a class open when spliced into a regular
\* expression source: new RegExp(...) throws a SyntaxError on them.
UnbalancedTokens == {"calc(", "x["}

\* new RegExp(source) throws.
RegExpThrows(toks) == \E k \in 1..Len(toks) : toks[k] \in UnbalancedTokens

(***************************************************************************)
(* The raw lines a specification text is made of.                          *)
(***************************************************************************)
Lines ==
  { <<>>,
    <<" ">>,
    <<"#", "note">>,
    <<"//", "note">>,
    <<"WHEN", "lines", ">", "5", "THEN", "warn">>,
    <<"when", "code", "contains", "console.log", "then", "flag", "SHALL", "flag">>,
    <<"WHEN", "x", "THEN", "y", "SHALL", "Critical">>,
    <<"WHEN", "x", "THEN", "y", "SHALL", "be", "error">>,
    <<"WHEN", "function", "has", "more", "than", "20", "lines", "THEN", "warn">>,
    <<"WHEN", "function", "has", "more", "than", "0", "lines", "THEN", "warn">>,
    <<"WHEN", "function", "calls", "console.log", "more", "than", "3", "times", "THEN", "warn">>,
    <<"WHEN", "function", "calc", "should", "work", "THEN", "suggest", "fix">>,
    <<"WHEN", "IF", "a", "THEN", "b">>,
    <<"WHEN", "THEN">>,
    <<"IF", "code", "uses", "var", "THEN", "flag">>,
    <<"IF", "x", "THEN", "y", "SHALL", "block">>,
    <<"IF", "class", "Foo", "MUST", "x", "THEN", "code", "should", "y">>,
    <<"function", "calc", "should", "validate">>,
    <<"function", "calc(", "must", "code", "should", "pass">>,
    <<"method", "calc(", "must", "validate">>,
    <<"class", "Foo", "must", "be", "named">>,
    <<"variable", "x[", "shall", "code", "must", "y">>,
    <<" ", "code", "should", "be", "documented", " ">>,
    <<"tests", "should", "exist">>,
    <<"this", "is", "not", "valid">> }

RECURSIVE SeqsUpTo(_, _)
SeqsUpTo(S, n) ==
  IF n = 0 THEN {<<>>}
  ELSE LET shorter == SeqsUpTo(S, n - 1)
       IN shorter \cup {Append(s, x) : s \in {t \in shorter : Len(t) = n - 1}, x \in S}

Contents == SeqsUpTo(Lines, MaxLines)

(***************************************************************************)
(* Lexicon: initializeKeywordMappings and mapSeverity.                     *)
(***************************************************************************)
\* this.keywordMappings as a lookup; "undefined" when the key is absent.
keywordMappings(k) ==
  CASE k = "must" -> "error"
    [] k = "shall" -> "error"
    [] k = "should" -> "warning"
    [] k = "may" -> "info"
    [] k = "critical" -> "critical"
    [] k = "error" -> "error"
    [] k = "warning" -> "warning"
    [] k = "info" -> "info"
    [] k = "warn" -> "warning"
    [] k = "flag" -> "violation"
    [] k = "suggest" -> "suggestion"
    [] k = "block" -> "violation"
    [] k = "allow" -> "suggestion"
    [] OTHER -> "undefined"

\* mapSeverity(severityText): the whole lower-cased text is the key, so a text
\* of several words is never found; "|| 'warning'" covers the absent key.
mapSeverity(severityText) ==
  LET text == LowerText(severityText)
      found == IF Len(text) = 1 THEN keywordMappings(text[1]) ELSE "undefined"
  IN IF found = "undefined" THEN "warning" ELSE found

Severities == {"info", "warning", "error", "critical"}

(***************************************************************************)
(* Template patterns (initializePatterns).  All carry the i flag.          *)
(***************************************************************************)
NoMatch == [ok |-> FALSE, g1 |-> <<>>, g2 |-> <<>>, g3 |-> <<>>, g4 |-> <<>>, has3 |-> FALSE]

\* /KW\s+(.+?)\s+THEN\s+(.+?)(?:\s+SHALL\s+(.+?))?$/i for KW = WHEN or IF.
\* The match starts at the leftmost KW that has a THEN at least one token
\* later with a token after it; group 1 is lazy and ends before the first such
\* THEN; group 2 is lazy and ends before the first SHALL that has a token after
\* it, else at the end of the text; group 3 runs to the end.
MatchKwThen(toks, kw) ==
  LET n == Len(toks)
      thens(p) == {q \in (p + 2)..(n - 1) : Lower(toks[q]) = "then"}
      starts == {p \in 1..n : Lower(toks[p]) = kw /\ thens(p) # {}}
  IN IF starts = {} THEN NoMatch
     ELSE LET p == Min(starts)
              q == Min(thens(p))
              ends == {r \in (q + 1)..n :
                         r = n \/ (r + 2 <= n /\ Lower(toks[r + 1]) = "shall")}
              r == Min(ends)
          IN [ok |-> TRUE,
              g1 |-> SubSeq(toks, p + 1, q - 1),
              g2 |-> SubSeq(toks, q + 1, r),
              g3 |-> IF r < n THEN SubSeq(toks, r + 2, n) ELSE <<>>,
              g4 |-> <<>>,
              has3 |-> r < n]

Modals == {"should", "must", "shall"}

\* /(HEAD)\s+(.+?)\s+(should|must|shall)\s+(.+)/i for a set of head words.
MatchHeadModal(toks, heads) ==
  LET n == Len(toks)
      modals(p) == {q \in (p + 2)..(n - 1) : Lower(toks[q]) \in Modals}
      starts == {p \in 1..n : Lower(toks[p]) \in heads /\ modals(p) # {}}
  IN IF starts = {} THEN NoMatch
     ELSE LET p == Min(starts)
              q == Min(modals(p))
          IN [ok |-> TRUE,
              g1 |-> <<toks[p]>>,
              g2 |-> SubSeq(toks, p + 1, q - 1),
              g3 |-> <<toks[q]>>,
              g4 |-> SubSeq(toks, q + 1, n),
              has3 |-> TRUE]

\* /code\s+(should|must|shall)\s+(.+)/i
MatchQuality(toks) ==
  LET n == Len(toks)
      starts == {p \in 1..(n - 2) : Lower(toks[p]) = "code" /\ Lower(toks[p + 1]) \in Modals}
  IN IF starts = {} THEN NoMatch
     ELSE LET p == Min(starts)
          IN [ok |-> TRUE,
              g1 |-> <<toks[p + 1]>>,
              g2 |-> SubSeq(toks, p + 2, n),
              g3 |-> <<>>, g4 |-> <<>>, has3 |-> FALSE]

\* statement.text.match(pattern.pattern) for the template of that name.
Match(name, toks) ==
  CASE name = "when_then" -> MatchKwThen(toks, "when")
    [] name = "if_then" -> MatchKwThen(toks, "if")
    [] name = "function_rule" -> MatchHeadModal(toks, {"function", "method"})
    [] name = "naming_rule" -> MatchHeadModal(toks, {"variable", "constant", "class", "interface"})
    [] name = "quality_rule" -> MatchQuality(toks)

ConfWhenThen == 90
ConfIfThen == 85
ConfFunction == 80
ConfNaming == 75
ConfQuality == 70
ConfGeneric == 30

\* this.rulePatterns: a Map, iterated in insertion order.
rulePatterns ==
  << [name |-> "when_then", confidence |-> ConfWhenThen],
     [name |-> "if_then", confidence |-> ConfIfThen],
     [name |-> "function_rule", confidence |-> ConfFunction],
     [name |-> "naming_rule", confidence |-> ConfNaming],
     [name |-> "quality_rule", confidence |-> ConfQuality] >>

(***************************************************************************)
(* Condition / action synthesis (parseCondition, parseAction).             *)
(***************************************************************************)
NoPattern == [re |-> "none", toks |-> <<>>]
NoMetric == [name |-> <<>>, operator |-> "none", value |-> 0]

PatternCondition(re, toks) ==
  [type |-> "pattern", pattern |-> [re |-> re, toks |-> toks], metric |-> NoMetric, custom |-> FALSE]
MetricCondition(name, op, value) ==
  [type |-> "metric", pattern |-> NoPattern,
   metric |-> [name |-> name, operator |-> op, value |-> value], custom |-> FALSE]
\* custom: (content, language) => b, a constant predicate in every builder.
CustomCondition(b) ==
  [type |-> "custom", pattern |-> NoPattern, metric |-> NoMetric, custom |-> b]

Operators == {">", "<", ">=", "<=", "==", "!="}
NumberTokens == {"0", "1", "3", "5", "20"}

\* parseInt on a token made of digits.
parseInt(t) ==
  CASE t = "0" -> 0 [] t = "1" -> 1 [] t = "3" -> 3 [] t = "5" -> 5 [] t = "20" -> 20

\* text.includes(word) for a single word, on token boundaries.
Includes(text, words) == \E k \in 1..Len(text) : text[k] \in words

\* text.includes('a b') for two adjacent words; the second may be continued
\* ('uses var' is found in 'uses variable').
IncludesPair(text, a, bs) ==
  \E k \in 1..(Len(text) - 1) : text[k] = a /\ text[k + 1] \in bs

parseCondition(conditionText) ==
  LET text == Trim(LowerText(conditionText))
      n == Len(text)
      \* /(.*?)\s*(>|<|>=|<=|==|!=)\s*(\d+)/
      metricAt == {m \in 1..(n - 1) : text[m] \in Operators /\ text[m + 1] \in NumberTokens}
      \* /more than (\d+)/
      moreThanAt == {m \in 1..(n - 2) :
                       text[m] = "more" /\ text[m + 1] = "than" /\ text[m + 2] \in NumberTokens}
      \* /(.*?)(contains|includes|has)\s+/
      verbAt == {m \in 1..(n - 1) : text[m] \in {"contains", "includes", "has"}}
  IN IF metricAt # {}
     THEN LET m == Min(metricAt)
          IN MetricCondition(Trim(SubSeq(text, 1, m - 1)), text[m], parseInt(text[m + 1]))
     ELSE IF Includes(text, {"console.log"})
     THEN PatternCondition("console.log", <<>>)
     ELSE IF IncludesPair(text, "var", {"declaration", "declarations"})
             \/ IncludesPair(text, "uses", {"var", "variable"})
     THEN PatternCondition("var", <<>>)
     ELSE IF Includes(text, {"function"}) /\ moreThanAt # {}
     THEN MetricCondition(<<"function", "lines">>, ">", parseInt(text[Min(moreThanAt) + 2]))
     ELSE IF Includes(text, {"contains", "includes", "has"})
     THEN PatternCondition("literal",
            IF verbAt = {} THEN text ELSE SubSeq(text, Min(verbAt) + 1, n))
     ELSE PatternCondition("literal", text)

parseAction(actionText) ==
  LET text == Trim(LowerText(actionText))
  IN IF Includes(text, {"warn", "warning"})
     THEN [type |-> "warning", message |-> actionText,
           suggestion |-> <<"Consider addressing:">> \o actionText]
     ELSE IF Includes(text, {"suggest", "recommend"})
     THEN [type |-> "suggestion", message |-> actionText, suggestion |-> actionText]
     ELSE [type |-> "violation", message |-> actionText,
           suggestion |-> <<"Fix:">> \o actionText]

(***************************************************************************)
(* Rule builders.  A builder returns [threw, rule]; threw is the builder's *)
(* rejected promise.  An identifier `${prefix}_${index}` is the pair       *)
(* [prefix, ord].                                                          *)
(***************************************************************************)
NoRule == [id |-> [prefix |-> "none", ord |-> 0]]

Built(rule) == [threw |-> FALSE, rule |-> rule]
Threw == [threw |-> TRUE, rule |-> NoRule]

ParsedRule(prefix, index, cond, act, severity, message, statement, confidence) ==
  [id |-> [prefix |-> prefix, ord |-> index],
   condition |-> cond,
   action |-> act,
   severity |-> severity,
   message |-> message,
   metadata |-> [originalText |-> statement.text, confidence |-> confidence]]

parseKwThenRule(prefix, confidence, match, statement, index) ==
  LET condition == Trim(match.g1)
      action == Trim(match.g2)
      severity == IF match.has3 THEN mapSeverity(match.g3) ELSE "warning"
  IN Built(ParsedRule(prefix, index, parseCondition(condition), parseAction(action),
                      severity, condition \o <<"-">> \o action, statement, confidence))

\* Mutation of parseWhenThenRule: the identifier is always when_then_1.
parseWhenThenRule_M(match, statement, index) ==
  parseKwThenRule("when_then", ConfWhenThen, match, statement, 1)

parseWhenThenRule(match, statement, index) ==
  parseKwThenRule("when_then", ConfWhenThen, match, statement, index)

parseIfThenRule(match, statement, index) ==
  parseKwThenRule("if_then", ConfIfThen, match, statement, index)

\* new RegExp(`function\\s+\\w*${target}\\w*`, 'i'): the target is spliced in
\* unescaped.
parseFunctionRule(match, statement, index) ==
  LET target == Trim(match.g2)
      severity == mapSeverity(match.g3)
      requirement == Trim(match.g4)
      message == <<"Function">> \o target \o requirement
  IN IF RegExpThrows(target) THEN Threw
     ELSE Built(ParsedRule("function", index,
                  PatternCondition("function", target),
                  [type |-> "violation", message |-> message,
                   suggestion |-> <<"Ensure function">> \o target \o requirement],
                  severity, message, statement, ConfFunction))

\* new RegExp(`(${elementType})\\s+\\w*${target}\\w*`, 'i'), unescaped too.
parseNamingRule(match, statement, index) ==
  LET elementType == Trim(match.g1)
      target == Trim(match.g2)
      severity == mapSeverity(match.g3)
      requirement == Trim(match.g4)
      message == elementType \o target \o requirement
  IN IF RegExpThrows(elementType \o target) THEN Threw
     ELSE Built(ParsedRule("naming", index,
                  PatternCondition("naming", elementType \o target),
                  [type |-> "violation", message |-> message,
                   suggestion |-> <<"Ensure naming">> \o elementType \o requirement],
                  severity, message, statement, ConfNaming))

parseQualityRule(match, statement, index) ==
  LET severity == mapSeverity(match.g1)
      requirement == Trim(match.g2)
  IN Built(ParsedRule("quality", index,
             CustomCondition(TRUE),
             [type |-> "suggestion", message |-> <<"Code">> \o requirement,
              suggestion |-> requirement],
             severity, <<"Code">> \o requirement, statement, ConfQuality))

\* Mutation of parseGenericRule: the always-true predicate of parseQualityRule.
parseGenericRule_M(statement, index) ==
  LET text == LowerText(statement.text)
      severity == IF Includes(text, {"must", "shall", "critical"}) THEN "error"
                  ELSE IF Includes(text, {"should", "warning"}) THEN "warning"
                  ELSE "info"
  IN ParsedRule("generic", index,
       CustomCondition(TRUE),
       [type |-> "suggestion", message |-> statement.text,
        suggestion |-> <<"Review this quality requirement">>],
       severity, statement.text, statement, ConfGeneric)

parseGenericRule(statement, index) ==
  LET text == LowerText(statement.text)
      severity == IF Includes(text, {"must", "shall", "critical"}) THEN "error"
                  ELSE IF Includes(text, {"should", "warning"}) THEN "warning"
                  ELSE "info"
  IN ParsedRule("generic", index,
       CustomCondition(FALSE),
       [type |-> "suggestion", message |-> statement.text,
        suggestion |-> <<"Review this quality requirement">>],
       severity, statement.text, statement, ConfGeneric)

\* pattern.parser: the builder bound to the template of that name.
Parser(name, match, statement, index) ==
  CASE name = "when_then" -> parseWhenThenRule(match, statement, index)
    [] name = "if_then" -> parseIfThenRule(match, statement, index)
    [] name = "function_rule" -> parseFunctionRule(match, statement, index)
    [] name = "naming_rule" -> parseNamingRule(match, statement, index)
    [] name = "quality_rule" -> parseQualityRule(match, statement, index)

\* The loop of parseRuleStatement from the k-th template on: a template whose
\* builder throws is skipped ("continue") and the next template is tried.
RECURSIVE TryPatterns(_, _, _)
TryPatterns(k, statement, index) ==
  IF k > Len(rulePatterns) THEN parseGenericRule(statement, index)
  ELSE LET pattern == rulePatterns[k]
           match == Match(pattern.name, statement.text)
       IN IF match.ok
          THEN LET b == Parser(pattern.name, match, statement, index)
               IN IF b.threw THEN TryPatterns(k + 1, statement, index)
                  ELSE [b.rule EXCEPT !.metadata.confidence = pattern.confidence]
          ELSE TryPatterns(k + 1, statement, index)

\* Mutation of parseRuleStatement: every builder is handed the index 1.
parseRuleStatement_M(statement, index) == Built(TryPatterns(1, statement, 1))

\* parseRuleStatement as seen by its caller: [threw, rule].
parseRuleStatement(statement, index) == Built(TryPatterns(1, statement, index))

\* extractRuleStatements from the k-th line on.
RECURSIVE ExtractFrom(_, _)
ExtractFrom(lines, k) ==
  IF k > Len(lines) THEN <<>>
  ELSE LET line == Trim(lines[k])
       IN IF line = <<>> \/ StartsWithComment(line)
          THEN ExtractFrom(lines, k + 1)
          ELSE <<[text |-> line, lineNumber |-> k]>> \o ExtractFrom(lines, k + 1)

\* Mutation of extractRuleStatements: only '#' starts a comment.
RECURSIVE ExtractFrom_M(_, _)
ExtractFrom_M(lines, k) ==
  IF k > Len(lines) THEN <<>>
  ELSE LET line == Trim(lines[k])
       IN IF line = <<>> \/ line[1] = "#"
          THEN ExtractFrom_M(lines, k + 1)
          ELSE <<[text |-> line, lineNumber |-> k]>> \o ExtractFrom_M(lines, k + 1)

extractRuleStatements_M(lines) == ExtractFrom_M(lines, 1)

extractRuleStatements(lines) == ExtractFrom(lines, 1)

(***************************************************************************)
(* Rule linker: convertToExecutableRules, createMatcher, createAction.     *)
(* A content buffer is the sequence of its lines (content.split('\n')),    *)
(* never empty; a line is a sequence of tokens.                            *)
(***************************************************************************)
CodeLines == { <<"console.log(x)">>, <<"console.log(x)", "console.log(x)">>,
               <<"function", "calc">> }

CodeBuffers == SeqsUpTo(CodeLines, MaxCodeLines) \ {<<>>}

Languages == {"typescript", "python"}

\* Length in characters of a token of a content buffer.
TokLen(t) ==
  CASE t = "console.log(x)" -> 14
    [] t = "x" -> 1
    [] t = "var" -> 3
    [] t = "function" -> 8
    [] t = "calc" -> 4
    [] OTHER -> 1

RECURSIVE LineLength(_)
LineLength(line) ==
  IF line = <<>> THEN 0
  ELSE TokLen(Head(line)) + (IF Len(line) > 1 THEN 1 ELSE 0) + LineLength(Tail(line))

RECURSIVE ContentLength(_)
ContentLength(lines) ==
  IF lines = <<>> THEN 0
  ELSE LineLength(Head(lines)) + (IF Len(lines) > 1 THEN 1 ELSE 0) + ContentLength(Tail(lines))

RECURSIVE Flatten(_)
Flatten(lines) == IF lines = <<>> THEN <<>> ELSE Head(lines) \o Flatten(Tail(lines))

\* A token that starts with a word character (\w).
IsWord(t) == t \notin {"(", ")", "{", "}", "=", ";"}

\* (content.match(/function\s+\w+/g) || []).length: matches do not overlap and
\* \s+ also spans a line break.
RECURSIVE CountFunctions(_, _)
CountFunctions(flat, k) ==
  IF k >= Len(flat) THEN 0
  ELSE IF flat[k] = "function" /\ IsWord(flat[k + 1])
       THEN 1 + CountFunctions(flat, k + 2)
       ELSE CountFunctions(flat, k + 1)

\* Mutation of calculateMetric: a name it does not know is taken as 'lines'.
calculateMetric_M(lines, metricName) ==
  LET name == LowerText(metricName)
  IN IF name \in {<<"lines">>, <<"line", "count">>} THEN Len(lines)
     ELSE IF name \in {<<"characters">>, <<"character", "count">>} THEN ContentLength(lines)
     ELSE IF name = <<"functions">> THEN CountFunctions(Flatten(lines), 1)
     ELSE Len(lines)

calculateMetric(lines, metricName) ==
  LET name == LowerText(metricName)
  IN IF name \in {<<"lines">>, <<"line", "count">>} THEN Len(lines)
     ELSE IF name \in {<<"characters">>, <<"character", "count">>} THEN ContentLength(lines)
     ELSE IF name = <<"functions">> THEN CountFunctions(Flatten(lines), 1)
     ELSE 0

\* Mutation of compareMetric: '>' also holds of equal values.
compareMetric_M(value, operator, threshold) ==
  CASE operator = ">" -> value >= threshold
    [] operator = "<" -> value < threshold
    [] operator = ">=" -> value >= threshold
    [] operator = "<=" -> value <= threshold
    [] operator = "==" -> value = threshold
    [] operator = "!=" -> value # threshold
    [] OTHER -> FALSE

compareMetric(value, operator, threshold) ==
  CASE operator = ">" -> value > threshold
    [] operator = "<" -> value < threshold
    [] operator = ">=" -> value >= threshold
    [] operator = "<=" -> value <= threshold
    [] operator = "==" -> value = threshold
    [] operator = "!=" -> value # threshold
    [] OTHER -> FALSE

\* The positions at which `toks` occurs in `line` as a run of tokens, letter
\* case ignored.
OccursAt(line, toks) ==
  {p \in 1..(Len(line) - Len(toks) + 1) :
     LowerText(SubSeq(line, p, p + Len(toks) - 1)) = LowerText(toks)}

\* The token positions where the rule's regular expression matches in a line.
PatternHits(pattern, line) ==
  CASE pattern.re = "console.log" ->
         {p \in 1..Len(line) : Lower(line[p]) \in {"console.log", "console.log(x)"}}
    [] pattern.re = "var" ->
         {p \in 1..(Len(line) - 1) : Lower(line[p]) = "var" /\ IsWord(line[p + 1])}
    [] pattern.re = "literal" -> OccursAt(line, pattern.toks)
    [] pattern.re = "function" -> OccursAt(line, <<"function">> \o pattern.toks)
    [] pattern.re = "naming" -> OccursAt(line, pattern.toks)
    [] OTHER -> {}

\* Characters before token p of a line: match.index.
OffsetOf(line, p) == IF p = 1 THEN 0 ELSE LineLength(SubSeq(line, 1, p - 1)) + 1

\* The patterns built with the g flag: match() then returns no index.
GlobalFlag(pattern) == pattern.re \in {"console.log", "var", "literal"}

\* Mutation of PatternMatches: one match for every occurrence in a line.
RECURSIVE PatternMatches_M(_, _, _)
PatternMatches_M(pattern, lines, k) ==
  IF k > Len(lines) THEN <<>>
  ELSE LET hits == PatternHits(pattern, lines[k])
       IN [j \in 1..Cardinality(hits) |->
             [line |-> k,
              column |-> IF GlobalFlag(pattern) THEN 0 ELSE OffsetOf(lines[k], Min(hits)),
              text |-> "match",
              context |-> lines[k]]]
          \o PatternMatches_M(pattern, lines, k + 1)

RECURSIVE PatternMatches(_, _, _)
PatternMatches(pattern, lines, k) ==
  IF k > Len(lines) THEN <<>>
  ELSE LET hits == PatternHits(pattern, lines[k])
       IN (IF hits = {} THEN <<>>
           ELSE <<[line |-> k,
                   column |-> IF GlobalFlag(pattern) THEN 0 ELSE OffsetOf(lines[k], Min(hits)),
                   text |-> "match",
                   context |-> lines[k]]>>)
          \o PatternMatches(pattern, lines, k + 1)

FileLevelMatch(text, context) ==
  <<[line |-> 1, column |-> 1, text |-> text, context |-> <<context>>]>>

\* createMatcher(condition).findMatches(content, language), when it resolves.
findMatches(condition, lines, language) ==
  CASE condition.type = "pattern" ->
         IF condition.pattern.re # "none" THEN PatternMatches(condition.pattern, lines, 1)
         ELSE <<>>
    [] condition.type = "metric" ->
         IF compareMetric(calculateMetric(lines, condition.metric.name),
                          condition.metric.operator, condition.metric.value)
         THEN FileLevelMatch("metric", "File-level metric") ELSE <<>>
    [] condition.type = "custom" ->
         IF condition.custom THEN FileLevelMatch("Custom condition matched", "File-level check")
         ELSE <<>>
    [] OTHER -> <<>>

\* createAction(action, severity, message).createViolation(match), when it
\* resolves.  The generated id (time stamp and random suffix) is left out.
createViolation(rule, match) ==
  [severity |-> rule.severity,
   message |-> IF rule.action.message # <<>> THEN rule.action.message ELSE rule.message,
   line |-> match.line,
   column |-> match.column,
   rule |-> "spec-driven-rule",
   suggestion |-> rule.action.suggestion]

\* convertToExecutableRules: matcher and action are closures over the rule.
convertToExecutableRules(parsedRules) ==
  [k \in 1..Len(parsedRules) |-> [id |-> parsedRules[k].id, originalRule |-> parsedRules[k]]]

(***************************************************************************)
(* parseQualitySpec: per-statement step, validation, confidence, result.   *)
(***************************************************************************)
\* generateSuggestion(originalText): one fixed hint, whatever the text.
generateSuggestion(originalText) == <<"Try using patterns like WHEN [condition] THEN [action]">>

\* Mutation of StatementStep: the statement's source line number is handed to
\* the builders in place of its position among the statements.
StatementStep_M(acc, statement, i) ==
  LET parsed == parseRuleStatement(statement, statement.lineNumber)
  IN IF parsed.threw
     THEN [acc EXCEPT !.errors = Append(@, [line |-> i + 1, column |-> 1,
                                            message |-> "parsing error",
                                            originalText |-> statement.text,
                                            suggestion |-> generateSuggestion(statement.text)])]
     ELSE [acc EXCEPT !.rules = Append(@, parsed.rule), !.origin = Append(@, i)]

\* Mutation of StatementStep: the generic fallback yields null, which the
\* loop does not push.
StatementStepNull_M(acc, statement, i) ==
  LET parsed == parseRuleStatement(statement, i + 1)
  IN IF parsed.threw
     THEN [acc EXCEPT !.errors = Append(@, [line |-> i + 1, column |-> 1,
                                            message |-> "parsing error",
                                            originalText |-> statement.text,
                                            suggestion |-> generateSuggestion(statement.text)])]
     ELSE IF parsed.rule.id.prefix = "generic" THEN acc
     ELSE [acc EXCEPT !.rules = Append(@, parsed.rule), !.origin = Append(@, i)]

\* One iteration of the statement loop, try and catch included: the rules and
\* errors after statement number i (0-based) was handled.
StatementStep(acc, statement, i) ==
  LET parsed == parseRuleStatement(statement, i + 1)
  IN IF parsed.threw
     THEN [acc EXCEPT !.errors = Append(@, [line |-> i + 1, column |-> 1,
                                            message |-> "parsing error",
                                            originalText |-> statement.text,
                                            suggestion |-> generateSuggestion(statement.text)])]
     ELSE [acc EXCEPT !.rules = Append(@, parsed.rule), !.origin = Append(@, i)]

\* Mutation of SeenBefore: every other rule of the list is counted.
SeenBefore_M(rs, k) == Cardinality({j \in 1..Len(rs) : j # k /\ rs[j].id = rs[k].id})

\* The number of rules before position k that carry the identifier of rule k.
SeenBefore(rs, k) == Cardinality({j \in 1..(k - 1) : rs[j].id = rs[k].id})

RECURSIVE ValidateFrom(_, _)
ValidateFrom(rs, k) ==
  IF k > Len(rs) THEN <<>>
  ELSE (IF SeenBefore(rs, k) > 0
        THEN <<[kind |-> "Duplicate rule ID found", id |-> rs[k].id]>> ELSE <<>>)
       \o (IF rs[k].metadata.confidence < 70
           THEN <<[kind |-> "Low confidence rule", id |-> rs[k].id]>> ELSE <<>>)
       \o ValidateFrom(rs, k + 1)

\* A condition or an action that is not there (undefined / null).
Missing == [type |-> "missing"]

\* !rule.condition || !rule.action
Incomplete(rule) == rule.condition.type = "missing" \/ rule.action.type = "missing"

RECURSIVE ValidateErrorsFrom(_, _)
ValidateErrorsFrom(rs, k) ==
  IF k > Len(rs) THEN <<>>
  ELSE (IF Incomplete(rs[k])
        THEN <<[line |-> 0, column |-> 0,
                message |-> <<"Incomplete rule", rs[k].id>>,
                originalText |-> rs[k].metadata.originalText,
                suggestion |-> <<"Ensure rule has both condition and action">>]>>
        ELSE <<>>)
       \o ValidateErrorsFrom(rs, k + 1)

\* validateRules: the warnings and the errors, each in the order of the rules.
validateRules(rs) == [warnings |-> ValidateFrom(rs, 1), errors |-> ValidateErrorsFrom(rs, 1)]

RECURSIVE SumConfidence(_, _)
SumConfidence(rs, k) ==
  IF k > Len(rs) THEN 0 ELSE rs[k].metadata.confidence + SumConfidence(rs, k + 1)

\* Mutation of calculateConfidence: the two rates are added, not averaged.
calculateConfidence_M(rs, errs, totalStatements) ==
  IF totalStatements = 0 THEN [num |-> 0, den |-> 1]
  ELSE IF Len(rs) > 0
  THEN [num |-> 100 * (totalStatements - Len(errs)) * Len(rs)
                  + SumConfidence(rs, 1) * totalStatements,
        den |-> totalStatements * Len(rs)]
  ELSE [num |-> 100 * (totalStatements - Len(errs)), den |-> totalStatements]

\* calculateConfidence, as the exact fraction num / den of a percentage:
\* ((total - errors) / total + sum / count) / 2.
calculateConfidence(rs, errs, totalStatements) ==
  IF totalStatements = 0 THEN [num |-> 0, den |-> 1]
  ELSE IF Len(rs) > 0
  THEN [num |-> 100 * (totalStatements - Len(errs)) * Len(rs)
                  + SumConfidence(rs, 1) * totalStatements,
        den |-> 2 * totalStatements * Len(rs)]
  ELSE [num |-> 100 * (totalStatements - Len(errs)), den |-> 2 * totalStatements]

\* Mutation of HighConfidence: the threshold taken as 0.3, inclusive.
HighConfidence_M(rule) == rule.metadata.confidence >= 30

\* rule => rule.metadata.confidence > 0.5
HighConfidence(rule) == rule.metadata.confidence > 50

RECURSIVE FilterRules(_, _)
FilterRules(rs, k) ==
  IF k > Len(rs) THEN <<>>
  ELSE (IF HighConfidence(rs[k]) THEN <<rs[k]>> ELSE <<>>) \o FilterRules(rs, k + 1)

\* The object parseQualitySpec returns, given the validator's findings.
MakeResult(stmts, rs, errs, validationResult) ==
  [threw |-> FALSE,
   rules |-> FilterRules(rs, 1),
   errors |-> errs \o validationResult.errors,
   warnings |-> validationResult.warnings,
   metadata |-> [totalRules |-> Len(stmts),
                 successfullyParsed |-> Len(rs),
                 confidence |-> calculateConfidence(rs, errs \o validationResult.errors,
                                                    Len(stmts))]]

\* The tail of parseQualitySpec after the loop: validation, confidence and the
\* returned object.
BuildResult(stmts, rs, errs) == MakeResult(stmts, rs, errs, validateRules(rs))

NoResult == [threw |-> FALSE, rules |-> <<>>, errors |-> <<>>, warnings |-> <<>>,
             metadata |-> [totalRules |-> 0, successfullyParsed |-> 0,
                           confidence |-> [num |-> 0, den |-> 1]]]

RECURSIVE ParseLoop(_, _, _)
ParseLoop(acc, stmts, i) ==
  IF i >= Len(stmts) THEN acc
  ELSE ParseLoop(StatementStep(acc, stmts[i + 1], i), stmts, i + 1)

ResultOf(stmts, acc) == BuildResult(stmts, acc.rules, acc.errors)

ParseStatements(stmts) ==
  ResultOf(stmts, ParseLoop([rules |-> <<>>, errors |-> <<>>, origin |-> <<>>], stmts, 0))

\* parseQualitySpec as a function of the text.
parseQualitySpec(text) == ParseStatements(extractRuleStatements(text))

(***************************************************************************)
(* One compilation, statement by statement.                                *)
(***************************************************************************)
Identifiers == {"team", "std"}

\* The value of Map.get for a key: absent (undefined) or the stored value.
Absent == [present |-> FALSE, value |-> <<>>]
Present(v) == [present |-> TRUE, value |-> v]

\* The calls of createQualitySpec / updateQualitySpec that have not returned
\* are the slots whose position is not "idle".
Slots == 1 .. MaxInFlight

NoRequest == [teamId |-> "none", standards |-> <<>>, content |-> <<>>, language |-> "typescript"]

ExecIdle ==
  /\ xpc = "idle" /\ request = NoRequest /\ teamRules = <<>> /\ ridx = 0 /\ sidx = 0
  /\ violations = <<>> /\ thrown = {}

NoCall == [op |-> "none", id |-> "none", spec |-> [content |-> <<>>, version |-> <<1, 0, 0>>],
           before |-> Absent, stored |-> Absent, deleted |-> FALSE, success |-> FALSE]

NoRead == [read |-> FALSE, rules |-> Absent, during |-> FALSE, before |-> {}, after |-> {}]

NoDelete == [call |-> 0, id |-> "none", returned |-> FALSE,
             storeBefore |-> Absent, rulesBefore |-> Absent]

StoreIdle ==
  /\ specStorage = [id \in Identifiers |-> Absent]
  /\ upc = [s \in Slots |-> "idle"] /\ uop = [s \in Slots |-> NoCall]
  /\ ncalls = 0 /\ apc = "idle" /\ observed = NoRead
  /\ dret = NoDelete

RegIdle ==
  /\ customRules = [id \in Identifiers |-> Absent]
  /\ StoreIdle

(***************************************************************************)
(* QualityGateConfigService and QualityGateService: the commit gate.       *)
(* A file path and an exclude pattern are sequences of characters.         *)
(***************************************************************************)
ThresholdNames ==
  {"minQualityScore", "maxCriticalViolations", "maxErrorViolations", "maxWarningViolations",
   "blockOnCritical", "warnOnLowScore"}

\* createDefaultConfig().excludePatterns
DefaultExcludePatterns ==
  << <<"n", "o", "d", "e", "_", "m", "o", "d", "u", "l", "e", "s", "/", "*", "*">>,
     <<"d", "i", "s", "t", "/", "*", "*">>,
     <<"b", "u", "i", "l", "d", "/", "*", "*">>,
     <<"*", ".", "t", "e", "s", "t", ".", "t", "s">>,
     <<"*", ".", "t", "e", "s", "t", ".", "j", "s">>,
     <<"*", ".", "s", "p", "e", "c", ".", "t", "s">>,
     <<"*", ".", "s", "p", "e", "c", ".", "j", "s">>,
     <<"*", ".", "m", "d">>,
     <<"*", ".", "j", "s", "o", "n">> >>

\* createDefaultConfig()
defaultConfig ==
  [enabled |-> TRUE,
   thresholds |-> [minQualityScore |-> 70, maxCriticalViolations |-> 0,
                   maxErrorViolations |-> 3, maxWarningViolations |-> 10,
                   blockOnCritical |-> TRUE, warnOnLowScore |-> TRUE],
   excludePatterns |-> DefaultExcludePatterns]

\* strictTeamConfig of loadConfigurations()
strictTeamConfig ==
  [enabled |-> TRUE,
   thresholds |-> [minQualityScore |-> 85, maxCriticalViolations |-> 0,
                   maxErrorViolations |-> 1, maxWarningViolations |-> 5,
                   blockOnCritical |-> TRUE, warnOnLowScore |-> TRUE],
   excludePatterns |-> DefaultExcludePatterns]

GateTeams == {"default", "strict-team", "team"}

\* this.configs after the constructor ran loadConfigurations().
ConstructedConfigs ==
  [t \in GateTeams |->
     CASE t = "default" -> Present(defaultConfig)
       [] t = "strict-team" -> Present(strictTeamConfig)
       [] OTHER -> Absent]

\* getConfig(teamId) on a table of configurations; "none" is no teamId.
ConfigOf(table, teamId) ==
  IF teamId \in GateTeams /\ table[teamId].present THEN table[teamId].value ELSE defaultConfig

\* The Partial<QualityGateConfig> arguments of updateConfig: `fields` are the
\* properties the object has, `thresholds` maps the thresholds it has.
NoThresholds == [n \in {} |-> 0]
PartialConfigs ==
  { [fields |-> {"enabled"}, enabled |-> FALSE, excludePatterns |-> <<>>,
     thresholds |-> NoThresholds],
    [fields |-> {"thresholds"}, enabled |-> TRUE, excludePatterns |-> <<>>,
     thresholds |-> [n \in {"minQualityScore"} |-> 101]],
    [fields |-> {"thresholds"}, enabled |-> TRUE, excludePatterns |-> <<>>,
     thresholds |-> [n \in {"maxErrorViolations"} |-> 0 - 1]],
    [fields |-> {"thresholds"}, enabled |-> TRUE, excludePatterns |-> <<>>,
     thresholds |-> [n \in {"maxErrorViolations", "maxWarningViolations"} |-> 0]],
    [fields |-> {"thresholds"}, enabled |-> TRUE, excludePatterns |-> <<>>,
     thresholds |-> [n \in {"warnOnLowScore", "blockOnCritical"} |-> FALSE]],
    [fields |-> {"excludePatterns"}, enabled |-> TRUE,
     excludePatterns |-> << <<"[">>, <<"*", ".", "m", "d">> >>,
     thresholds |-> NoThresholds],
    [fields |-> {"excludePatterns"}, enabled |-> TRUE,
     excludePatterns |-> << <<"?", ".", "t", "s">> >>,
     thresholds |-> NoThresholds] }

\* { ...existingConfig, ...config, thresholds: { ...existingConfig.thresholds,
\*   ...(config.thresholds || {}) } }
MergeConfig(existingConfig, partial) ==
  [enabled |-> IF "enabled" \in partial.fields THEN partial.enabled
               ELSE existingConfig.enabled,
   excludePatterns |-> IF "excludePatterns" \in partial.fields THEN partial.excludePatterns
                       ELSE existingConfig.excludePatterns,
   thresholds |-> [n \in ThresholdNames |->
                     IF "thresholds" \in partial.fields /\ n \in DOMAIN partial.thresholds
                     THEN partial.thresholds[n]
                     ELSE existingConfig.thresholds[n]]]

\* pattern.replace(/\*\*/g, '.*')
RECURSIVE ReplaceDoubleStar(_)
ReplaceDoubleStar(s) ==
  IF s = <<>> THEN <<>>
  ELSE IF Len(s) >= 2 /\ s[1] = "*" /\ s[2] = "*"
       THEN <<".", "*">> \o ReplaceDoubleStar(SubSeq(s, 3, Len(s)))
       ELSE <<s[1]>> \o ReplaceDoubleStar(Tail(s))

\* .replace(/\*/g, '[^/]*'): it also rewrites the star the first step made.
RECURSIVE ReplaceStar(_)
ReplaceStar(s) ==
  IF s = <<>> THEN <<>>
  ELSE (IF s[1] = "*" THEN <<"[", "^", "/", "]", "*">> ELSE <<s[1]>>) \o ReplaceStar(Tail(s))

\* .replace(/\?/g, '.')
RECURSIVE ReplaceQuestion(_)
ReplaceQuestion(s) ==
  IF s = <<>> THEN <<>>
  ELSE (IF s[1] = "?" THEN <<".">> ELSE <<s[1]>>) \o ReplaceQuestion(Tail(s))

\* The source text handed to new RegExp for an exclude pattern.
RegExpSource(pattern) == ReplaceQuestion(ReplaceStar(ReplaceDoubleStar(pattern)))

\* new RegExp(source): the items of the expression, or a SyntaxError.  The
\* sources of the model hold literals, '.', the class [^/] and its star; an
\* opening bracket or parenthesis that nothing closes is a SyntaxError.
RECURSIVE CompileRegExp(_)
CompileRegExp(src) ==
  IF src = <<>> THEN [threw |-> FALSE, items |-> <<>>]
  ELSE IF Len(src) >= 4 /\ SubSeq(src, 1, 4) = <<"[", "^", "/", "]">>
  THEN LET star == Len(src) >= 5 /\ src[5] = "*"
           rest == CompileRegExp(SubSeq(src, IF star THEN 6 ELSE 5, Len(src)))
       IN [threw |-> rest.threw,
           items |-> <<[kind |-> IF star THEN "notSlashStar" ELSE "notSlash", ch |-> "/"]>>
                     \o rest.items]
  ELSE IF src[1] \in {"[", "("} THEN [threw |-> TRUE, items |-> <<>>]
  ELSE LET rest == CompileRegExp(Tail(src))
       IN [threw |-> rest.threw,
           items |-> <<[kind |-> IF src[1] = "." THEN "any" ELSE "literal", ch |-> src[1]]>>
                     \o rest.items]

\* The expression's items from the k-th on match the path at position i.
RECURSIVE MatchFrom(_, _, _, _)
MatchFrom(items, k, path, i) ==
  IF k > Len(items) THEN TRUE
  ELSE CASE items[k].kind = "literal" ->
              i <= Len(path) /\ path[i] = items[k].ch /\ MatchFrom(items, k + 1, path, i + 1)
         [] items[k].kind = "any" ->
              i <= Len(path) /\ MatchFrom(items, k + 1, path, i + 1)
         [] items[k].kind = "notSlash" ->
              i <= Len(path) /\ path[i] # "/" /\ MatchFrom(items, k + 1, path, i + 1)
         [] items[k].kind = "notSlashStar" ->
              \E j \in i..(Len(path) + 1) :
                /\ \A m \in i..(j - 1) : path[m] # "/"
                /\ MatchFrom(items, k + 1, path, j)

\* regex.test(filePath): the expression is not anchored.
RegExpTest(items, path) == \E i \in 1..(Len(path) + 1) : MatchFrom(items, 1, path, i)

\* config.excludePatterns.some(...) from the k-th pattern on: [threw, value].
RECURSIVE SomePattern(_, _, _)
SomePattern(patterns, k, filePath) ==
  IF k > Len(patterns) THEN [threw |-> FALSE, value |-> FALSE]
  ELSE LET regex == CompileRegExp(RegExpSource(patterns[k]))
       IN IF regex.threw THEN [threw |-> TRUE, value |-> FALSE]
          ELSE IF RegExpTest(regex.items, filePath) THEN [threw |-> FALSE, value |-> TRUE]
          ELSE SomePattern(patterns, k + 1, filePath)

isFileExcluded(filePath, cfg) == SomePattern(cfg.excludePatterns, 1, filePath)

\* event.changes.filter(change => change.changeType !== 'deleted' &&
\* !isFileExcluded(change.filePath, config)) from the k-th change on.
RECURSIVE FilterChanges(_, _, _)
FilterChanges(changes, k, cfg) ==
  IF k > Len(changes) THEN [threw |-> FALSE, value |-> <<>>]
  ELSE IF changes[k].changeType = "deleted" THEN FilterChanges(changes, k + 1, cfg)
  ELSE LET excluded == isFileExcluded(changes[k].filePath, cfg)
           rest == FilterChanges(changes, k + 1, cfg)
       IN IF excluded.threw THEN [threw |-> TRUE, value |-> <<>>]
          ELSE IF rest.threw THEN rest
          ELSE [threw |-> FALSE,
                value |-> (IF excluded.value THEN <<>> ELSE <<changes[k]>>) \o rest.value]

\* The changed files of the events.
FileChanges ==
  { [filePath |-> <<"a", ".", "t", "s">>, changeType |-> "modified"],
    [filePath |-> <<"a", ".", "t", "s">>, changeType |-> "deleted"],
    [filePath |-> <<"a", ".", "m", "d">>, changeType |-> "modified"],
    [filePath |-> <<"d", "i", "s", "t", "/", "a", ".", "t", "s">>, changeType |-> "added"] }

\* What analyzeCode resolves with: the severities of its violations and its
\* quality score.  The analysis itself is not part of this model.
AnalysisResults ==
  { [violations |-> <<>>, qualityScore |-> 100],
    [violations |-> <<"info">>, qualityScore |-> 70],
    [violations |-> <<"warning">>, qualityScore |-> 69],
    [violations |-> <<"error", "warning">>, qualityScore |-> 90],
    [violations |-> <<"critical">>, qualityScore |-> 40] }

\* How analyzeCode settles for the file at index k of filesToAnalyze: it
\* rejects, or it resolves with one of the results.
AnalysisOutcomes(k) ==
  {[threw |-> TRUE, result |-> [file |-> k, violations |-> <<>>, qualityScore |-> 0]]}
  \cup {[threw |-> FALSE,
         result |-> [file |-> k, violations |-> r.violations, qualityScore |-> r.qualityScore]] :
          r \in AnalysisResults}

RECURSIVE SumScores(_)
SumScores(results) ==
  IF results = <<>> THEN 0 ELSE Head(results).qualityScore + SumScores(Tail(results))

RECURSIVE AllViolations(_)
AllViolations(results) ==
  IF results = <<>> THEN <<>> ELSE Head(results).violations \o AllViolations(Tail(results))

CountSeverity(vs, severity) == Cardinality({k \in 1..Len(vs) : vs[k] = severity})

\* Math.round(x / n) for x >= 0 and n > 0: halves are rounded up.
RoundedDiv(x, n) == (2 * x + n) \div (2 * n)

aggregateAnalysisResults(results) ==
  IF Len(results) = 0
  THEN [totalFiles |-> 0, averageQualityScore |-> 100, allViolations |-> <<>>,
        violationCounts |-> [critical |-> 0, error |-> 0, warning |-> 0, info |-> 0]]
  ELSE [totalFiles |-> Len(results),
        averageQualityScore |-> RoundedDiv(SumScores(results), Len(results)),
        allViolations |-> AllViolations(results),
        violationCounts |->
          [critical |-> CountSeverity(AllViolations(results), "critical"),
           error |-> CountSeverity(AllViolations(results), "error"),
           warning |-> CountSeverity(AllViolations(results), "warning"),
           info |-> CountSeverity(AllViolations(results), "info")]]

\* Mutation of makeQualityGateDecision: the score is checked before the counts.
makeQualityGateDecision_M(analysis, cfg) ==
  LET thresholds == cfg.thresholds
      violationCounts == analysis.violationCounts
  IN IF analysis.averageQualityScore < thresholds.minQualityScore
     THEN IF thresholds.warnOnLowScore THEN "warn" ELSE "block"
     ELSE IF thresholds.blockOnCritical
             /\ violationCounts.critical > thresholds.maxCriticalViolations
     THEN "block"
     ELSE IF violationCounts.error > thresholds.maxErrorViolations THEN "block"
     ELSE IF violationCounts.warning > thresholds.maxWarningViolations THEN "block"
     ELSE "allow"

\* makeQualityGateDecision(analysis, config).action
makeQualityGateDecision(analysis, cfg) ==
  LET thresholds == cfg.thresholds
      violationCounts == analysis.violationCounts
  IN IF thresholds.blockOnCritical
        /\ violationCounts.critical > thresholds.maxCriticalViolations
     THEN "block"
     ELSE IF violationCounts.error > thresholds.maxErrorViolations THEN "block"
     ELSE IF violationCounts.warning > thresholds.maxWarningViolations THEN "block"
     ELSE IF analysis.averageQualityScore < thresholds.minQualityScore
     THEN IF thresholds.warnOnLowScore THEN "warn" ELSE "block"
     ELSE "allow"

NoEvent == [teamId |-> "none", changes |-> <<>>]
NoCommitResult == [action |-> "none", reason |-> "none", violations |-> <<>>, qualityScore |-> 0]

\* The gate after construction: the two configurations of
\* loadConfigurations, no enforcement under way.
GateIdle ==
  /\ configs = ConstructedConfigs /\ nupdates = 0
  /\ gpc = "idle" /\ event = NoEvent /\ config = defaultConfig
  /\ filesToAnalyze = <<>> /\ gidx = 0 /\ analysisResults = <<>>
  /\ analysed = {} /\ failed = {}
  /\ commitResult = NoCommitResult

\* updateConfig(teamId, config)
UpdateConfig ==
  /\ nupdates < MaxUpdates
  /\ \E teamId \in {"team"}, partial \in PartialConfigs :
       configs' = [configs EXCEPT ![teamId] =
                     Present(MergeConfig(ConfigOf(configs, teamId), partial))]
  /\ nupdates' = nupdates + 1
  /\ UNCHANGED <<gpc, event, config, filesToAnalyze, gidx, analysisResults, analysed, failed,
                 commitResult, parserVars, execVars, regVars, noteVars>>

\* Mutation of EnforceStart: the disabled gate is not looked at.
EnforceStart_M ==
  /\ gpc = "idle"
  /\ \E teamId \in {"none", "team", "strict-team"}, changes \in SeqsUpTo(FileChanges, MaxFiles) :
       LET cfg == ConfigOf(configs, teamId)
           filtered == FilterChanges(changes, 1, cfg)
       IN /\ event' = [teamId |-> teamId, changes |-> changes]
          /\ config' = cfg
          /\ IF filtered.threw
             THEN /\ commitResult' = [NoCommitResult EXCEPT !.action = "warn", !.reason = "failed"]
                  /\ gpc' = "done"
                  /\ UNCHANGED <<filesToAnalyze, gidx>>
             ELSE IF Len(filtered.value) = 0
             THEN /\ commitResult' = [NoCommitResult EXCEPT !.action = "allow",
                                                           !.reason = "no files"]
                  /\ gpc' = "done"
                  /\ UNCHANGED <<filesToAnalyze, gidx>>
             ELSE /\ filesToAnalyze' = filtered.value
                  /\ gidx' = 1
                  /\ gpc' = "analyze"
                  /\ UNCHANGED commitResult
  /\ UNCHANGED <<configs, nupdates, analysisResults, analysed, failed, parserVars, execVars, regVars,
                 noteVars>>

\* enforceQualityGate(event) up to its first await: the configuration is read,
\* the changes are filtered, and the call returns early when the gate is
\* disabled, when no file is left, or (through the outer catch) when an
\* exclude pattern is not a regular expression.
EnforceStart ==
  /\ gpc = "idle"
  /\ \E teamId \in {"none", "team", "strict-team"}, changes \in SeqsUpTo(FileChanges, MaxFiles) :
       LET cfg == ConfigOf(configs, teamId)
           filtered == FilterChanges(changes, 1, cfg)
       IN /\ event' = [teamId |-> teamId, changes |-> changes]
          /\ config' = cfg
          /\ IF ~cfg.enabled
             THEN /\ commitResult' = [NoCommitResult EXCEPT !.action = "allow",
                                                           !.reason = "disabled"]
                  /\ gpc' = "done"
                  /\ UNCHANGED <<filesToAnalyze, gidx>>
             ELSE IF filtered.threw
             THEN /\ commitResult' = [NoCommitResult EXCEPT !.action = "warn", !.reason = "failed"]
                  /\ gpc' = "done"
                  /\ UNCHANGED <<filesToAnalyze, gidx>>
             ELSE IF Len(filtered.value) = 0
             THEN /\ commitResult' = [NoCommitResult EXCEPT !.action = "allow",
                                                           !.reason = "no files"]
                  /\ gpc' = "done"
                  /\ UNCHANGED <<filesToAnalyze, gidx>>
             ELSE /\ filesToAnalyze' = filtered.value
                  /\ gidx' = 1
                  /\ gpc' = "analyze"
                  /\ UNCHANGED commitResult
  /\ UNCHANGED <<configs, nupdates, analysisResults, analysed, failed, parserVars, execVars, regVars,
                 noteVars>>

\* Mutation of AnalyzeFile: the try / catch is around the loop, so a file
\* whose analysis throws ends the loop.
AnalyzeFile_M ==
  /\ gpc = "analyze" /\ gidx <= Len(filesToAnalyze)
  /\ \E outcome \in AnalysisOutcomes(gidx) :
       /\ analysisResults' = IF outcome.threw THEN analysisResults
                             ELSE Append(analysisResults, outcome.result)
       /\ failed' = IF outcome.threw THEN failed \cup {gidx} ELSE failed
       /\ gidx' = IF outcome.threw THEN Len(filesToAnalyze) + 1 ELSE gidx + 1
  /\ analysed' = analysed \cup {gidx}
  /\ UNCHANGED <<configs, nupdates, gpc, event, config, filesToAnalyze, commitResult,
                 parserVars, execVars, regVars, noteVars>>

\* One iteration of "for (const change of filesToAnalyze)": analyzeCode
\* resolves and its result is pushed, or it rejects and the file is skipped.
AnalyzeFile ==
  /\ gpc = "analyze" /\ gidx <= Len(filesToAnalyze)
  /\ \E outcome \in AnalysisOutcomes(gidx) :
       /\ analysisResults' = IF outcome.threw THEN analysisResults
                             ELSE Append(analysisResults, outcome.result)
       /\ failed' = IF outcome.threw THEN failed \cup {gidx} ELSE failed
  /\ gidx' = gidx + 1
  /\ analysed' = analysed \cup {gidx}
  /\ UNCHANGED <<configs, nupdates, gpc, event, config, filesToAnalyze, commitResult,
                 parserVars, execVars, regVars, noteVars>>

\* After the loop: the results are aggregated, the decision is made and the
\* call returns.
Decide ==
  /\ gpc = "analyze" /\ gidx > Len(filesToAnalyze)
  /\ commitResult' =
       [action |-> makeQualityGateDecision(aggregateAnalysisResults(analysisResults), config),
        reason |-> "decision",
        violations |-> aggregateAnalysisResults(analysisResults).allViolations,
        qualityScore |-> aggregateAnalysisResults(analysisResults).averageQualityScore]
  /\ gpc' = "done"
  /\ UNCHANGED <<configs, nupdates, event, config, filesToAnalyze, gidx, analysisResults,
                 analysed, failed, parserVars, execVars, regVars, noteVars>>

(***************************************************************************)
(* NotificationService: the connection table of the WebSocket server.      *)
(***************************************************************************)
Sockets == 1 .. MaxSockets
NoteUsers == {"alice", "bob"}
NoSocket == 0

NewSocket == [state |-> "unconnected", userId |-> "none", isAlive |-> FALSE, handlers |-> FALSE]
NoDelivery == [userId |-> "none", socket |-> NoSocket, sent |-> FALSE, newest |-> NoSocket]

\* The service after initialize(): no connection yet.
NoteIdle ==
  /\ connections = [u \in NoteUsers |-> NoSocket]
  /\ sockets = [w \in Sockets |-> NewSocket]
  /\ latest = [u \in NoteUsers |-> NoSocket]
  /\ delivered = NoDelivery

\* this.connections.delete(userId)
DeleteConnection(table, userId) == [table EXCEPT ![userId] = NoSocket]

\* server.on('connection', (ws, request) => ...): the socket is registered
\* under the userId of the request and gets its listeners, or it is closed
\* when the request carries no userId.
Connection(w) ==
  /\ sockets[w].state = "unconnected"
  /\ \A v \in Sockets : v < w => sockets[v].state # "unconnected"
  /\ \E userId \in NoteUsers \cup {"none"} :
       IF userId # "none"
       THEN /\ connections' = [connections EXCEPT ![userId] = w]
            /\ sockets' = [sockets EXCEPT ![w] = [state |-> "open", userId |-> userId,
                                                  isAlive |-> TRUE, handlers |-> TRUE]]
            /\ latest' = [latest EXCEPT ![userId] = w]
       ELSE /\ sockets' = [sockets EXCEPT ![w].state = "closed"]
            /\ UNCHANGED <<connections, latest>>
  /\ UNCHANGED <<delivered, parserVars, execVars, regVars, gateVars>>

\* ws.on('pong', ...)
Pong(w) ==
  /\ sockets[w].handlers /\ sockets[w].state = "open" /\ ~sockets[w].isAlive
  /\ sockets' = [sockets EXCEPT ![w].isAlive = TRUE]
  /\ UNCHANGED <<connections, latest, delivered, parserVars, execVars, regVars, gateVars>>

\* ws.on('error', ...): the entry of the socket's user is deleted; the
\* socket goes on to close.
ErrorEvent(w) ==
  /\ sockets[w].handlers /\ sockets[w].state = "open"
  /\ connections' = DeleteConnection(connections, sockets[w].userId)
  /\ sockets' = [sockets EXCEPT ![w].state = "closing"]
  /\ UNCHANGED <<latest, delivered, parserVars, execVars, regVars, gateVars>>

\* ws.on('close', ...): the entry of the socket's user is deleted.
CloseEvent(w) ==
  /\ sockets[w].handlers /\ sockets[w].state \in {"open", "closing"}
  /\ connections' = DeleteConnection(connections, sockets[w].userId)
  /\ sockets' = [sockets EXCEPT ![w].state = "closed"]
  /\ UNCHANGED <<latest, delivered, parserVars, execVars, regVars, gateVars>>

\* One tick of startHealthCheck's interval: a registered socket that did not
\* answer the last ping is terminated and its entry deleted, the others are
\* marked and pinged.
HealthCheck ==
  /\ \E u \in NoteUsers : connections[u] # NoSocket
  /\ connections' = [u \in NoteUsers |->
                       IF connections[u] # NoSocket /\ ~sockets[connections[u]].isAlive
                       THEN NoSocket ELSE connections[u]]
  /\ sockets' = [w \in Sockets |->
                   IF \E u \in NoteUsers : connections[u] = w
                   THEN IF ~sockets[w].isAlive
                        THEN [sockets[w] EXCEPT !.state = IF @ = "open" THEN "closing" ELSE @]
                        ELSE [sockets[w] EXCEPT !.isAlive = FALSE]
                   ELSE sockets[w]]
  /\ UNCHANGED <<latest, delivered, parserVars, execVars, regVars, gateVars>>

\* sendRealTimeFeedback(feedback): sent on the registered socket when it is
\* open, dropped with a warning otherwise.  `newest` records the socket of
\* the user's most recent connection when that socket is open at the call.
SendRealTimeFeedback ==
  /\ \E userId \in NoteUsers :
       LET connection == connections[userId]
           newest == IF latest[userId] # NoSocket /\ sockets[latest[userId]].state = "open"
                     THEN latest[userId] ELSE NoSocket
       IN delivered' = IF connection # NoSocket /\ sockets[connection].state = "open"
                       THEN [userId |-> userId, socket |-> connection, sent |-> TRUE,
                             newest |-> newest]
                       ELSE [userId |-> userId, socket |-> NoSocket, sent |-> FALSE,
                             newest |-> newest]
  /\ delivered' # delivered
  /\ UNCHANGED <<connections, sockets, latest, parserVars, execVars, regVars, gateVars>>

Init ==
  /\ pc = "extract"
  /\ content \in Contents
  /\ statements = <<>> /\ idx = 0
  /\ rules = <<>> /\ errors = <<>> /\ warnings = <<>> /\ origin = <<>>
  /\ result = NoResult
  /\ ncompiles = 1 /\ previous = NoResult
  /\ ExecIdle /\ RegIdle /\ GateIdle /\ NoteIdle

ExtractStatements ==
  /\ pc = "extract"
  /\ statements' = extractRuleStatements(content)
  /\ idx' = 0
  /\ pc' = "loop"
  /\ UNCHANGED <<content, rules, errors, warnings, origin, result, ncompiles, previous,
               execVars, regVars, gateVars, noteVars>>

ParseStatement ==
  /\ pc = "loop" /\ idx < Len(statements)
  /\ \E acc \in {StatementStep([rules |-> rules, errors |-> errors, origin |-> origin],
                               statements[idx + 1], idx)} :
       rules' = acc.rules /\ errors' = acc.errors /\ origin' = acc.origin
  /\ idx' = idx + 1
  /\ UNCHANGED <<pc, content, statements, warnings, result, ncompiles, previous,
               execVars, regVars, gateVars, noteVars>>

Return ==
  /\ pc = "loop" /\ idx = Len(statements)
  /\ LET r == BuildResult(statements, rules, errors)
     IN result' = r /\ warnings' = r.warnings /\ errors' = r.errors
  /\ pc' = "done"
  /\ UNCHANGED <<content, statements, idx, rules, origin, ncompiles, previous,
               execVars, regVars, gateVars, noteVars>>

Next == ExtractStatements \/ ParseStatement \/ Return

Spec == Init /\ [][Next]_vars

(***************************************************************************)
(* validateRules called on its own, with any rule list.                    *)
(***************************************************************************)
\* Rules as a caller may hand them to validateRules: built rules, rules with
\* an identifier set by the caller, rules without condition or action.
SampleRule(id, confidence, cond, act) ==
  [id |-> id, condition |-> cond, action |-> act, severity |-> "warning",
   message |-> <<"x", "-", "warn">>,
   metadata |-> [originalText |-> <<"WHEN", "x", "THEN", "warn">>, confidence |-> confidence]]

SampleRules ==
  LET a == [prefix |-> "duplicate_id", ord |-> 0]
      b == [prefix |-> "when_then", ord |-> 1]
      cond == parseCondition(<<"x">>)
      act == parseAction(<<"warn">>)
  IN { SampleRule(a, ConfWhenThen, cond, act),
       SampleRule(a, ConfGeneric, cond, act),
       SampleRule(b, ConfWhenThen, cond, act),
       SampleRule(a, ConfWhenThen, Missing, act),
       SampleRule(b, ConfQuality, cond, Missing) }

RuleLists == SeqsUpTo(SampleRules, MaxRules)

InitVal ==
  /\ pc = "validate"
  /\ rules \in RuleLists
  /\ content = <<>> /\ statements = <<>> /\ idx = 0
  /\ errors = <<>> /\ warnings = <<>> /\ origin = <<>>
  /\ result = NoResult
  /\ ncompiles = 0 /\ previous = NoResult
  /\ ExecIdle /\ RegIdle /\ GateIdle /\ NoteIdle

\* validateRules(rules) returns { warnings, errors }; the list is only read.
ValidateRules ==
  /\ pc = "validate"
  /\ \E v \in {validateRules(rules)} : warnings' = v.warnings /\ errors' = v.errors
  /\ pc' = "validated"
  /\ UNCHANGED <<content, statements, idx, rules, origin, result, ncompiles, previous,
                 execVars, regVars, gateVars, noteVars>>

NextVal == ValidateRules

SpecVal == InitVal /\ [][NextVal]_vars

\* Mutation of CallAgain: the rules array kept on the parser across calls.
CallAgain_M ==
  /\ pc = "done" /\ ncompiles < MaxCompiles
  /\ previous' = result
  /\ ncompiles' = ncompiles + 1
  /\ pc' = "extract"
  /\ statements' = <<>> /\ idx' = 0
  /\ errors' = <<>> /\ warnings' = <<>>
  /\ result' = NoResult
  /\ UNCHANGED <<content, rules, origin, execVars, regVars, gateVars, noteVars>>

\* parseQualitySpec is called once more with the same text.  rules, errors,
\* warnings, statements and i are locals of the call; the parser's own fields
\* (rulePatterns, keywordMappings) are set by the constructor and never
\* written afterwards, so a fresh parser and a used one start alike.
CallAgain ==
  /\ pc = "done" /\ ncompiles < MaxCompiles
  /\ previous' = result
  /\ ncompiles' = ncompiles + 1
  /\ pc' = "extract"
  /\ statements' = <<>> /\ idx' = 0
  /\ rules' = <<>> /\ errors' = <<>> /\ warnings' = <<>> /\ origin' = <<>>
  /\ result' = NoResult
  /\ UNCHANGED <<content, execVars, regVars, gateVars, noteVars>>

NextTwice == Next \/ CallAgain

SpecTwice == Init /\ [][NextTwice]_vars

(***************************************************************************)
(* AnalysisService: loadQualityStandards and applySpecDrivenRules.         *)
(***************************************************************************)
\* The rules loadQualityStandards registers for a specification text.
LoadedRules(text) == convertToExecutableRules(parseQualitySpec(text).rules)

\* A fault of one rule evaluation: 0, both promises resolve; -1, findMatches
\* rejects; k >= 1, createViolation rejects on the k-th match.
NoFault == 0
MatcherFault == -1

\* Mutation of TryRule: the matches are walked from the last to the first.
TryRule_M(rule, req, fault, from) ==
  LET matches == findMatches(rule.originalRule.condition, req.content, req.language)
      n == IF fault = MatcherFault THEN 0
           ELSE IF fault >= 1 THEN fault - 1
           ELSE Len(matches)
  IN [j \in 1..n |-> [v |-> createViolation(rule.originalRule, matches[Len(matches) + 1 - j]),
                      from |-> from]]

\* The body of the try block for one rule: the violations pushed before the
\* block ends or throws.  `from` is history: the pass and the rule's index.
TryRule(rule, req, fault, from) ==
  LET matches == findMatches(rule.originalRule.condition, req.content, req.language)
      n == IF fault = MatcherFault THEN 0
           ELSE IF fault >= 1 THEN fault - 1
           ELSE Len(matches)
  IN [j \in 1..n |-> [v |-> createViolation(rule.originalRule, matches[j]), from |-> from]]

\* Whether that fault can happen to that rule on that content.
FaultPossible(rule, req, fault) ==
  \/ fault = NoFault
  \/ fault = MatcherFault
  \/ fault \in 1..Len(findMatches(rule.originalRule.condition, req.content, req.language))

\* The pass of the rule loop in progress: 0 for context.teamId, s for
\* standards[s].
Pass == IF xpc = "teamLoop" THEN 0 ELSE sidx

\* const teamRules = this.customRules.get(request.context.teamId)
ReadTeamRules ==
  /\ xpc = "team"
  /\ IF request.teamId # "none" /\ customRules[request.teamId].present
     THEN /\ teamRules' = customRules[request.teamId].value
          /\ ridx' = 1 /\ sidx' = 0
          /\ xpc' = "teamLoop"
     ELSE /\ teamRules' = <<>>
          /\ ridx' = 0 /\ sidx' = 1
          /\ xpc' = "standards"
  /\ UNCHANGED <<request, violations, thrown, parserVars, regVars, gateVars, noteVars>>

\* Mutation of ApplyRule: one try / catch around the whole loop, so that a
\* fault ends the loop.
ApplyRule_M ==
  /\ xpc \in {"teamLoop", "stdLoop"} /\ ridx <= Len(teamRules)
  /\ \E fault \in MatcherFault..MaxCodeLines :
       /\ FaultPossible(teamRules[ridx], request, fault)
       /\ fault # NoFault => Cardinality(thrown) < MaxFaults
       /\ violations' = violations \o TryRule(teamRules[ridx], request, fault, <<Pass, ridx>>)
       /\ thrown' = IF fault = NoFault THEN thrown ELSE thrown \cup {<<Pass, ridx>>}
       /\ ridx' = IF fault = NoFault THEN ridx + 1 ELSE Len(teamRules) + 1
  /\ UNCHANGED <<xpc, request, teamRules, sidx, parserVars, regVars, gateVars, noteVars>>

\* One iteration of "for (const rule of ...)": try { matches; violations } catch.
ApplyRule ==
  /\ xpc \in {"teamLoop", "stdLoop"} /\ ridx <= Len(teamRules)
  /\ \E fault \in MatcherFault..MaxCodeLines :
       /\ FaultPossible(teamRules[ridx], request, fault)
       /\ fault # NoFault => Cardinality(thrown) < MaxFaults
       /\ violations' = violations \o TryRule(teamRules[ridx], request, fault, <<Pass, ridx>>)
       /\ thrown' = IF fault = NoFault THEN thrown ELSE thrown \cup {<<Pass, ridx>>}
  /\ ridx' = ridx + 1
  /\ UNCHANGED <<xpc, request, teamRules, sidx, parserVars, regVars, gateVars, noteVars>>

\* The end of a rule loop.
EndRules ==
  /\ xpc \in {"teamLoop", "stdLoop"} /\ ridx > Len(teamRules)
  /\ sidx' = sidx + 1
  /\ xpc' = "standards"
  /\ UNCHANGED <<request, teamRules, ridx, violations, thrown, parserVars, regVars, gateVars, noteVars>>

\* const globalRules = this.customRules.get(standard)
ReadStandardRules ==
  /\ xpc = "standards" /\ sidx <= Len(request.standards)
  /\ IF customRules[request.standards[sidx]].present
     THEN /\ teamRules' = customRules[request.standards[sidx]].value
          /\ ridx' = 1
          /\ xpc' = "stdLoop"
          /\ sidx' = sidx
     ELSE /\ sidx' = sidx + 1
          /\ UNCHANGED <<teamRules, ridx, xpc>>
  /\ UNCHANGED <<request, violations, thrown, parserVars, regVars, gateVars, noteVars>>

\* return violations
ReturnViolations ==
  /\ xpc = "standards" /\ sidx > Len(request.standards)
  /\ xpc' = "done"
  /\ UNCHANGED <<request, teamRules, ridx, sidx, violations, thrown, parserVars, regVars, gateVars, noteVars>>

\* Specification texts whose rules are registered before an execution.
ExecContents ==
  { << <<"when", "code", "contains", "console.log", "then", "flag", "SHALL", "flag">> >>,
    << <<"WHEN", "lines", ">", "1", "THEN", "warn">> >>,
    << <<"when", "code", "contains", "console.log", "then", "flag", "SHALL", "flag">>,
       <<" ", "code", "should", "be", "documented", " ">> >>,
    << <<"WHEN", "lines", ">", "1", "THEN", "warn">>,
       <<"when", "code", "contains", "console.log", "then", "flag", "SHALL", "flag">> >>,
    << <<" ", "code", "should", "be", "documented", " ">>,
       <<"WHEN", "lines", ">", "1", "THEN", "warn">> >>,
    << <<"WHEN", "code", "contains", "console.log", "THEN", "warn">>,
       <<"when", "code", "contains", "console.log", "then", "flag", "SHALL", "flag">> >> }

ParserIdle ==
  /\ pc = "idle" /\ content = <<>> /\ statements = <<>> /\ idx = 0
  /\ rules = <<>> /\ errors = <<>> /\ warnings = <<>> /\ origin = <<>>
  /\ result = NoResult
  /\ ncompiles = 0 /\ previous = NoResult

InitExec ==
  /\ ParserIdle /\ GateIdle /\ NoteIdle
  /\ StoreIdle
  /\ \E t \in {Absent} \cup {Present(LoadedRules(c)) : c \in ExecContents},
        g \in {Absent, Present(LoadedRules(<<<<"code", "should", "be", "documented">>>>))} :
       customRules = [id \in Identifiers |-> IF id = "team" THEN t ELSE g]
  /\ \E teamId \in {"none", "team"}, standards \in {<<>>, <<"team">>, <<"std">>},
        lines \in CodeBuffers :
       request = [teamId |-> teamId, standards |-> standards,
                  content |-> lines, language |-> "typescript"]
  /\ xpc = "team" /\ teamRules = <<>> /\ ridx = 0 /\ sidx = 0
  /\ violations = <<>> /\ thrown = {}

NextExec == ReadTeamRules \/ ApplyRule \/ EndRules \/ ReadStandardRules \/ ReturnViolations

SpecExec == InitExec /\ [][NextExec]_vars

\* Every await of applySpecDrivenRules settles (resolves or rejects), so the
\* call always takes its next step.
SpecExecFair == SpecExec /\ WF_vars(NextExec)

(***************************************************************************)
(* QualitySpecService: the specification store and its calls, interleaved  *)
(* at their await points with an analysis that reads the rule registry.    *)
(* A version "a.b.c" is the sequence <<a, b, c>>.                          *)
(***************************************************************************)
\* isValid: no errors, confidence above 0.7, at least one usable rule.
IsValid(parseResult) ==
  /\ ~parseResult.threw
  /\ Len(parseResult.errors) = 0
  /\ parseResult.metadata.confidence.num > 70 * parseResult.metadata.confidence.den
  /\ Len(parseResult.rules) > 0

\* AnalysisService.validateQualitySpec(spec).isValid
validateQualitySpec(spec) == IsValid(parseQualitySpec(spec.content))

incrementVersion(version) ==
  IF Len(version) >= 3
  THEN <<version[1], version[2], version[3] + 1>>
  ELSE version

DefaultVersion == <<1, 0, 0>>

\* Specification texts handed to the store.
StoreContents ==
  { <<<<"when", "code", "contains", "console.log", "then", "flag", "SHALL", "flag">>>>,
    << <<" ", "code", "should", "be", "documented", " ">>,
       <<"IF", "code", "uses", "var", "THEN", "flag">> >>,
    <<<<"this", "is", "not", "valid">>>> }

StoreIds == {"team"}

\* A new call takes the first free slot.
FreeSlot(s) == upc[s] = "idle" /\ \A t \in Slots : t < s => upc[t] # "idle"

\* createQualitySpec up to "await this.analysisService.validateQualitySpec(spec)".
CallCreate(s) ==
  /\ FreeSlot(s) /\ ncalls < MaxCalls
  /\ \E id \in StoreIds, text \in StoreContents, version \in {DefaultVersion, <<2, 0>>} :
       uop' = [uop EXCEPT ![s] =
                 [op |-> "create", id |-> id,
                  spec |-> [content |-> text, version |-> version],
                  before |-> customRules[id], stored |-> specStorage[id],
                  deleted |-> FALSE, success |-> FALSE]]
  /\ upc' = [upc EXCEPT ![s] = "validating"]
  /\ ncalls' = ncalls + 1
  /\ UNCHANGED <<customRules, specStorage, apc, observed, dret, parserVars, execVars, gateVars, noteVars>>

\* Mutation of CallUpdate: the old rules are cleared before the validation.
CallUpdate_M(s) ==
  /\ FreeSlot(s) /\ ncalls < MaxCalls
  /\ \E id \in StoreIds, text \in StoreContents, version \in {DefaultVersion, <<2, 0>>} :
       IF specStorage[id].present
       THEN /\ uop' = [uop EXCEPT ![s] =
                         [op |-> "update", id |-> id,
                          spec |-> [[content |-> text, version |-> version] EXCEPT
                                      !.version = incrementVersion(specStorage[id].value.version)],
                          before |-> customRules[id], stored |-> specStorage[id],
                          deleted |-> FALSE, success |-> FALSE]]
            /\ upc' = [upc EXCEPT ![s] = "validating"]
            /\ customRules' = [customRules EXCEPT ![id] = Absent]
       ELSE /\ uop' = [uop EXCEPT ![s] =
                         [op |-> "update", id |-> id,
                          spec |-> [content |-> text, version |-> DefaultVersion],
                          before |-> customRules[id], stored |-> specStorage[id],
                          deleted |-> FALSE, success |-> FALSE]]
            /\ upc' = upc
            /\ customRules' = customRules
  /\ ncalls' = ncalls + 1
  /\ UNCHANGED <<specStorage, apc, observed, dret, parserVars, execVars, gateVars, noteVars>>

\* updateQualitySpec up to the same await, or its early return when nothing is
\* stored under the identifier.  The version of the updated specification is
\* computed here, from the specification stored at the time of the call; a
\* version given in the metadata of the call is overwritten by it.
CallUpdate(s) ==
  /\ FreeSlot(s) /\ ncalls < MaxCalls
  /\ \E id \in StoreIds, text \in StoreContents, version \in {DefaultVersion, <<2, 0>>} :
       IF specStorage[id].present
       THEN /\ uop' = [uop EXCEPT ![s] =
                         [op |-> "update", id |-> id,
                          spec |-> [[content |-> text, version |-> version] EXCEPT
                                      !.version = incrementVersion(specStorage[id].value.version)],
                          before |-> customRules[id], stored |-> specStorage[id],
                          deleted |-> FALSE, success |-> FALSE]]
            /\ upc' = [upc EXCEPT ![s] = "validating"]
       ELSE /\ uop' = [uop EXCEPT ![s] =
                         [op |-> "update", id |-> id,
                          spec |-> [content |-> text, version |-> DefaultVersion],
                          before |-> customRules[id], stored |-> specStorage[id],
                          deleted |-> FALSE, success |-> FALSE]]
            /\ upc' = upc
  /\ ncalls' = ncalls + 1
  /\ UNCHANGED <<customRules, specStorage, apc, observed, dret, parserVars, execVars, gateVars, noteVars>>

\* Mutation of Validated: the specification is stored before the outcome of
\* the validation is looked at.
Validated_M(s) ==
  /\ upc[s] = "validating"
  /\ specStorage' = [specStorage EXCEPT ![uop[s].id] = Present(uop[s].spec)]
  /\ IF validateQualitySpec(uop[s].spec)
     THEN /\ customRules' = IF uop[s].op = "update"
                            THEN [customRules EXCEPT ![uop[s].id] = Absent]
                            ELSE customRules
          /\ upc' = [upc EXCEPT ![s] = "loading"]
          /\ uop' = uop
     ELSE /\ upc' = [upc EXCEPT ![s] = "idle"]
          /\ uop' = [uop EXCEPT ![s].success = FALSE]
          /\ UNCHANGED customRules
  /\ UNCHANGED <<ncalls, apc, observed, dret, parserVars, execVars, gateVars, noteVars>>

\* The call resumes after validation: on success clearRules (update only) and
\* specStorage.set, then loadQualityStandards up to its await of the parser.
Validated(s) ==
  /\ upc[s] = "validating"
  /\ IF validateQualitySpec(uop[s].spec)
     THEN /\ customRules' = IF uop[s].op = "update"
                            THEN [customRules EXCEPT ![uop[s].id] = Absent]
                            ELSE customRules
          /\ specStorage' = [specStorage EXCEPT ![uop[s].id] = Present(uop[s].spec)]
          /\ upc' = [upc EXCEPT ![s] = "loading"]
          /\ uop' = uop
     ELSE /\ upc' = [upc EXCEPT ![s] = "idle"]
          /\ uop' = [uop EXCEPT ![s].success = FALSE]
          /\ UNCHANGED <<customRules, specStorage>>
  /\ UNCHANGED <<ncalls, apc, observed, dret, parserVars, execVars, gateVars, noteVars>>

\* loadQualityStandards resumes: this.customRules.set(teamId, executableRules),
\* and the call returns success.
Loaded(s) ==
  /\ upc[s] = "loading"
  /\ customRules' = [customRules EXCEPT ![uop[s].id] =
                       Present(LoadedRules(uop[s].spec.content))]
  /\ upc' = [upc EXCEPT ![s] = "idle"]
  /\ uop' = [uop EXCEPT ![s].success = TRUE]
  /\ UNCHANGED <<specStorage, ncalls, apc, observed, dret, parserVars, execVars, gateVars, noteVars>>

\* The calls in flight on the identifier learn that a delete ran meanwhile.
MarkDeleted(id) ==
  [s \in Slots |-> IF upc[s] # "idle" /\ uop[s].id = id
                   THEN [uop[s] EXCEPT !.deleted = TRUE]
                   ELSE uop[s]]

\* Mutation of Delete: the rules of the identifier are not cleared.
Delete_M ==
  /\ ncalls < MaxCalls
  /\ \E id \in StoreIds :
       /\ IF specStorage[id].present
          THEN /\ specStorage' = [specStorage EXCEPT ![id] = Absent]
               /\ UNCHANGED customRules
          ELSE UNCHANGED <<specStorage, customRules>>
       /\ uop' = MarkDeleted(id)
       /\ dret' = [call |-> ncalls + 1, id |-> id, returned |-> specStorage[id].present,
                   storeBefore |-> specStorage[id], rulesBefore |-> customRules[id]]
  /\ ncalls' = ncalls + 1
  /\ UNCHANGED <<upc, apc, observed, parserVars, execVars, gateVars, noteVars>>

\* deleteQualitySpec: synchronous, so it may run while another call awaits.
Delete ==
  /\ ncalls < MaxCalls
  /\ \E id \in StoreIds :
       /\ IF specStorage[id].present
          THEN /\ specStorage' = [specStorage EXCEPT ![id] = Absent]
               /\ customRules' = [customRules EXCEPT ![id] = Absent]
          ELSE UNCHANGED <<specStorage, customRules>>
       /\ uop' = MarkDeleted(id)
       /\ dret' = [call |-> ncalls + 1, id |-> id, returned |-> specStorage[id].present,
                   storeBefore |-> specStorage[id], rulesBefore |-> customRules[id]]
  /\ ncalls' = ncalls + 1
  /\ UNCHANGED <<upc, apc, observed, parserVars, execVars, gateVars, noteVars>>

\* getQualitySpec(identifier): the stored specification, or null.
Null == [content |-> <<>>, version |-> <<>>]
getQualitySpec(identifier) ==
  IF specStorage[identifier].present THEN specStorage[identifier].value ELSE Null

\* getLoadedRules(identifier): this.customRules.get(identifier) || [].
getLoadedRules(identifier) ==
  IF customRules[identifier].present THEN customRules[identifier].value ELSE <<>>

\* The calls that are replacing the identifier's registered rule set.
Replacing(id) ==
  { s \in Slots : upc[s] # "idle" /\ uop[s].id = id /\ uop[s].before.present
                  /\ ~uop[s].deleted }

\* analyzeCode is called and awaits its first analysis step.
AnalysisStart ==
  /\ apc = "idle"
  /\ apc' = "running"
  /\ UNCHANGED <<customRules, specStorage, upc, uop, ncalls, observed, dret, parserVars,
               execVars, gateVars, noteVars>>

\* applySpecDrivenRules: const teamRules = this.customRules.get(teamId).  The
\* array it gets is never changed in place, so the loop sees what was read.
AnalysisRead ==
  /\ apc = "running"
  /\ \E id \in StoreIds :
       observed' = [read |-> TRUE,
                    rules |-> customRules[id],
                    during |-> Replacing(id) # {},
                    before |-> { uop[s].before : s \in Replacing(id) },
                    after |-> { IF validateQualitySpec(uop[s].spec)
                                THEN Present(LoadedRules(uop[s].spec.content))
                                ELSE uop[s].before : s \in Replacing(id) }]
  /\ apc' = "idle"
  /\ UNCHANGED <<customRules, specStorage, upc, uop, ncalls, dret, parserVars, execVars, gateVars, noteVars>>

InitReg ==
  /\ ParserIdle /\ ExecIdle /\ RegIdle /\ GateIdle /\ NoteIdle

\* One create / update call at a time, with deleteQualitySpec calls and an
\* analysis running between its steps.
NextReg ==
  \/ CallCreate(1) \/ CallUpdate(1) \/ Validated(1) \/ Loaded(1)
  \/ Delete \/ AnalysisStart \/ AnalysisRead

SpecReg == InitReg /\ [][NextReg]_vars

\* Overlapping create / update calls, with deleteQualitySpec calls between
\* their steps.
NextStore ==
  \/ \E s \in Slots : CallCreate(s) \/ CallUpdate(s) \/ Validated(s) \/ Loaded(s)
  \/ Delete

SpecStore == InitReg /\ [][NextStore]_vars

(***************************************************************************)
(* The commit gate: updateConfig calls and one enforceQualityGate call.    *)
(***************************************************************************)
NextGate == UpdateConfig \/ EnforceStart \/ AnalyzeFile \/ Decide
SpecGate == InitReg /\ [][NextGate]_vars

(***************************************************************************)
(* The notification service: connections, their events, health checks and  *)
(* feedback.                                                               *)
(***************************************************************************)
NextNotify ==
  \/ \E w \in Sockets : Connection(w) \/ Pong(w) \/ ErrorEvent(w) \/ CloseEvent(w)
  \/ HealthCheck
  \/ SendRealTimeFeedback
SpecNotify == InitReg /\ [][NextNotify]_vars

(***************************************************************************)
(* Properties of one compilation (specification Spec).                     *)
(***************************************************************************)
\* The identifier prefix the builder of a template gives its rules.
TemplatePrefix(name) ==
  CASE name = "when_then" -> "when_then"
    [] name = "if_then" -> "if_then"
    [] name = "function_rule" -> "function"
    [] name = "naming_rule" -> "naming"
    [] name = "quality_rule" -> "quality"

\* The templates, by position in rulePatterns, whose pattern matches a statement.
Matching(statement) ==
  {t \in 1..Len(rulePatterns) : Match(rulePatterns[t].name, statement.text).ok}

\* The matching templates whose builder throws on the statement.
Throwing(statement, index) ==
  {t \in Matching(statement) :
     Parser(rulePatterns[t].name, Match(rulePatterns[t].name, statement.text),
            statement, index).threw}

\* A raw line that extractRuleStatements keeps: not blank and not a comment.
IsStatementLine(line) ==
  /\ \E k \in 1..Len(line) : line[k] # " "
  /\ Head(TrimLeft(line)) \notin {"#", "//", "#todo"}

\* C1: every rule of the returned collection has confidence above 0.5; a rule
\* at or below 0.5 is not in the returned collection although its statement is
\* counted in metadata.totalRules.
C1_UsableRulesAboveThreshold ==
  pc = "done" =>
    /\ \A j \in 1..Len(result.rules) : result.rules[j].metadata.confidence > 50
    /\ \A k \in 1..Len(rules) :
         rules[k].metadata.confidence <= 50 =>
           /\ \A j \in 1..Len(result.rules) : result.rules[j] # rules[k]
           /\ origin[k] + 1 <= result.metadata.totalRules
    /\ result.metadata.totalRules = Len(statements)

\* A compilation that returned usable rules and withheld a low-confidence one.
C1_Witness ==
  /\ pc = "done"
  /\ Len(result.rules) > 0
  /\ \E k \in 1..Len(rules) : rules[k].metadata.confidence <= 50

\* C2: the rule of a statement carries the identifier prefix and the
\* confidence of the earliest template, in the fixed order, whose pattern
\* matches the statement.
C2_EarliestMatchingTemplateWins ==
  \A k \in 1..Len(rules) :
    LET statement == statements[origin[k] + 1]
    IN Matching(statement) # {} =>
         /\ rules[k].id.prefix = TemplatePrefix(rulePatterns[Min(Matching(statement))].name)
         /\ rules[k].metadata.confidence = rulePatterns[Min(Matching(statement))].confidence

C4_BuilderThrowIsRecorded ==
  \A i \in 0..(idx - 1) :
    Throwing(statements[i + 1], i + 1) # {} =>
      /\ \E e \in 1..Len(errors) :
           /\ errors[e].line = statements[i + 1].lineNumber
           /\ errors[e].originalText = statements[i + 1].text
      /\ \A k \in 1..Len(rules) : origin[k] # i

\* C5: every built rule, and every violation its action makes of a match,
\* has a severity among info, warning, error, critical.
C5_SeverityInRange ==
  \A k \in 1..Len(rules) :
    /\ rules[k].severity \in Severities
    /\ \A lines \in CodeBuffers :
         \A m \in 1..Len(findMatches(rules[k].condition, lines, "typescript")) :
           createViolation(rules[k],
             findMatches(rules[k].condition, lines, "typescript")[m]).severity \in Severities

\* C9: a statement that matches no template yields a rule with confidence 0.3
\* and an always-false predicate; the rule is counted in successfullyParsed,
\* is not among the returned rules nor among the executable rules made of
\* them, and its matcher finds nothing in any content, whatever the language.
C9_FallbackRuleNeverFires ==
  /\ \A i \in 0..(idx - 1) :
       Matching(statements[i + 1]) = {} => \E k \in 1..Len(rules) : origin[k] = i
  /\ \A k \in 1..Len(rules) :
       Matching(statements[origin[k] + 1]) = {} =>
         /\ rules[k].id.prefix = "generic"
         /\ rules[k].metadata.confidence = 30
         /\ rules[k].condition.type = "custom"
         /\ ~rules[k].condition.custom
         /\ \A lines \in CodeBuffers, language \in Languages :
              findMatches(rules[k].condition, lines, language) = <<>>
         /\ pc = "done" =>
              /\ k <= result.metadata.successfullyParsed
              /\ \A j \in 1..Len(result.rules) : result.rules[j].id # rules[k].id
              /\ \A j \in 1..Len(result.rules) :
                   convertToExecutableRules(result.rules)[j].id # rules[k].id

\* A compilation that built a fallback rule beside a usable rule.
C9_Witness ==
  /\ pc = "done"
  /\ Len(result.rules) > 0
  /\ \E k \in 1..Len(rules) :
       Matching(statements[origin[k] + 1]) = {} /\ rules[k].id.prefix = "generic"

\* The condition phrase of rule k, as the WHEN / IF builders hand it to
\* parseCondition (lower-cased).
C28_ConditionText(k) ==
  LowerText(Trim(Match(IF rules[k].id.prefix = "when_then" THEN "when_then" ELSE "if_then",
                       statements[origin[k] + 1].text).g1))

\* The numbers N that follow 'more than' in a phrase.
C28_MoreThan(text) ==
  {parseInt(text[m + 2]) : m \in {m \in 1..(Len(text) - 2) :
     text[m] = "more" /\ text[m + 1] = "than" /\ text[m + 2] \in NumberTokens}}

\* Rule k was compiled from a condition that combines 'function' and
\* 'more than N'.
C28_Combines(k) ==
  /\ rules[k].id.prefix \in {"when_then", "if_then"}
  /\ Includes(C28_ConditionText(k), {"function"})
  /\ C28_MoreThan(C28_ConditionText(k)) # {}

\* One of the heuristics tried before 'function ... more than N' applies to
\* the phrase: a comparison operator followed by a number, 'console.log',
\* 'var declaration' or 'uses var'.
C28_EarlierHeuristic(text) ==
  \/ \E m \in 1..(Len(text) - 1) : text[m] \in Operators /\ text[m + 1] \in NumberTokens
  \/ Includes(text, {"console.log"})
  \/ IncludesPair(text, "var", {"declaration", "declarations"})
  \/ IncludesPair(text, "uses", {"var", "variable"})

\* Rule k carries the metric 'function lines' > N, which is 0 > N on every
\* content buffer, and its matcher finds nothing.
C28_NeverFires(k) ==
  /\ rules[k].condition.type = "metric"
  /\ rules[k].condition.metric.name = <<"function", "lines">>
  /\ rules[k].condition.metric.operator = ">"
  /\ rules[k].condition.metric.value \in C28_MoreThan(C28_ConditionText(k))
  /\ rules[k].condition.metric.value >= 0
  /\ \A lines \in CodeBuffers, language \in Languages :
       /\ calculateMetric(lines, rules[k].condition.metric.name) = 0
       /\ findMatches(rules[k].condition, lines, language) = <<>>

\* C28 as stated: the rule compiled from a condition that combines 'function'
\* and 'more than N' carries the metric name 'function lines', and its
\* matcher returns no match on any content buffer.
C28_FunctionMoreThanNeverFires ==
  \A k \in 1..Len(rules) : C28_Combines(k) => C28_NeverFires(k)

\* C28: the rule compiled from a condition that combines 'function' and
\* 'more than N', and to which no earlier heuristic applies, carries the
\* metric name 'function lines', which evaluates to 0; its matcher returns no
\* match on any content buffer, for every N >= 0.
C28_FunctionLinesNeverFires ==
  \A k \in 1..Len(rules) :
    (C28_Combines(k) /\ ~C28_EarlierHeuristic(C28_ConditionText(k))) => C28_NeverFires(k)

\* A compilation returned a usable rule made from 'function has more than 0
\* lines'; the content buffers include one that defines a function.
C28_Witness ==
  /\ pc = "done"
  /\ \E k \in 1..Len(rules) :
       /\ C28_Combines(k) /\ ~C28_EarlierHeuristic(C28_ConditionText(k))
       /\ rules[k].condition.metric.value = 0
       /\ \E j \in 1..Len(result.rules) : result.rules[j].id = rules[k].id
  /\ \E lines \in CodeBuffers : CountFunctions(Flatten(lines), 1) > 0

\* C27: parseQualitySpec builds exactly one rule per extracted statement:
\* successfullyParsed equals totalRules and the errors are empty, so with at
\* least one statement the overall confidence is (1 + average confidence of
\* the built rules) / 2.
C27_OneRulePerStatement ==
  pc = "done" =>
    /\ ~result.threw
    /\ Len(rules) = Len(statements)
    /\ \A i \in 0..(Len(statements) - 1) :
         Cardinality({k \in 1..Len(rules) : origin[k] = i}) = 1
    /\ result.metadata.successfullyParsed = result.metadata.totalRules
    /\ result.metadata.totalRules = Len(statements)
    /\ result.errors = <<>>
    /\ Len(statements) > 0 =>
         result.metadata.confidence.num * 2 * Len(rules)
           = result.metadata.confidence.den * (100 * Len(rules) + SumConfidence(rules, 1))

\* A compilation of two statements has returned; the builder of one of them
\* threw and the other matches no template.
C27_Witness ==
  /\ pc = "done" /\ Len(statements) = 2
  /\ \E i, j \in 1..2 :
       /\ Throwing(statements[i], i) # {}
       /\ Matching(statements[j]) = {}
  /\ result.errors = <<>>
  /\ result.metadata.successfullyParsed = 2

\* What holds of a compilation that returned.
C10_Returned ==
  pc = "done" =>
       /\ ~result.threw
       /\ idx = Len(statements)
       /\ \A i \in 0..(Len(statements) - 1) :
            \/ \E k \in 1..Len(rules) : origin[k] = i
            \/ \E e \in 1..Len(errors) : errors[e].line = i + 1
       /\ result.metadata.totalRules =
            Cardinality({k \in 1..Len(content) : IsStatementLine(content[k])})

\* The steps a compilation still has to take: one per statement not yet
\* handled, one to return, and before the extraction one per line at most.
C10_Remaining ==
  CASE pc = "extract" -> Len(content) + 2
    [] pc = "loop" -> Len(statements) - idx + 1
    [] pc = "done" -> 0

\* A compilation that has not returned has a step to take.
C10_CanStep ==
  \/ pc = "extract"
  \/ pc = "loop" /\ idx < Len(statements)
  \/ pc = "loop" /\ idx = Len(statements)
  \/ pc = "done"

\* C10: a compilation always returns: it is never stuck before it returns and
\* every step brings the return nearer; it returns a result, not an error,
\* after it handled every statement, and metadata.totalRules is the number of
\* lines of the text that are neither blank nor comments.
C10_AlwaysReturnsAResult ==
  /\ []C10_Returned
  /\ [](C10_CanStep /\ C10_Remaining >= 0)
  /\ [][C10_Remaining' < C10_Remaining]_vars

\* A returned compilation of a text made only of malformed statements.
C10_Witness ==
  /\ pc = "done"
  /\ content = << <<"WHEN", "THEN">>, <<"this", "is", "not", "valid">> >>
  /\ result.metadata.totalRules = 2
  /\ result.rules = <<>>

\* C11: the confidence a compilation returns lies in [0, 1]; it is 0 when the
\* text has no statement; otherwise it is the mean of the success rate,
\* computed with the length of the returned errors list (the validator's
\* errors appended), and of the average confidence of the built rules.
C11_ConfidenceInUnitInterval ==
  pc = "done" =>
    LET c == result.metadata.confidence
        n == Len(statements)
        e == Len(result.errors)
    IN /\ c.den > 0 /\ 0 <= c.num /\ c.num <= 100 * c.den
       /\ n = 0 => c.num = 0
       /\ n > 0 /\ Len(rules) > 0 =>
            c.num * (2 * n * Len(rules))
              = c.den * (100 * (n - e) * Len(rules) + SumConfidence(rules, 1) * n)
       /\ n > 0 /\ Len(rules) = 0 => c.num * (2 * n) = c.den * (100 * (n - e))

\* A returned compilation of a text with statements, of a confidence strictly
\* between 0 and 1, beside which the empty text is compiled to confidence 0.
C11_Witness ==
  /\ pc = "done"
  /\ Len(statements) = 2
  /\ result.metadata.confidence.num > 0
  /\ result.metadata.confidence.num < 100 * result.metadata.confidence.den
  /\ parseQualitySpec(<<>>).metadata.confidence.num = 0

\* C13: a later compilation of the same text, on the same parser or on a
\* fresh one, returns the usable rules, warnings, errors and metadata the
\* compilation before it returned (the time stamps are left out of the model).
C13_CompileIsIdempotent ==
  (pc = "done" /\ ncompiles > 1) =>
    /\ result = previous
    /\ convertToExecutableRules(result.rules) = convertToExecutableRules(previous.rules)

\* A second compilation that returned a usable rule and a warning.
C13_Witness ==
  /\ pc = "done" /\ ncompiles = 2
  /\ Len(result.rules) = 1
  /\ Len(result.warnings) > 0
  /\ previous.rules = result.rules

\* C14: of two handled statements that both match the WHEN/THEN template,
\* each has a rule and the rule of the earlier one has the strictly smaller
\* identifier ordinal.
C14_WhenThenOrdinalsAscend ==
  /\ \A i \in 0..(idx - 1) :
       Match("when_then", statements[i + 1].text).ok => \E k \in 1..Len(rules) : origin[k] = i
  /\ \A j, k \in 1..Len(rules) :
       (/\ origin[j] < origin[k]
        /\ Match("when_then", statements[origin[j] + 1].text).ok
        /\ Match("when_then", statements[origin[k] + 1].text).ok)
       => rules[j].id.ord < rules[k].id.ord

\* A returned compilation of two different WHEN/THEN statements.
C14_Witness ==
  /\ pc = "done"
  /\ Len(rules) = 2
  /\ rules[1].id.prefix = "when_then" /\ rules[2].id.prefix = "when_then"
  /\ statements[1].text # statements[2].text
  /\ rules[1].id.ord = 1 /\ rules[2].id.ord = 2

\* The warnings of the validator about a repeated identifier.
DuplicateWarnings(ws) == {k \in 1..Len(ws) : ws[k].kind = "Duplicate rule ID found"}

\* C15: no two rules built by one compilation share an identifier, neither
\* before nor after the confidence filter, and the compilation returns no
\* 'Duplicate rule ID' warning.
C15_IdentifiersAreUnique ==
  /\ \A j, k \in 1..Len(rules) : j # k => rules[j].id # rules[k].id
  /\ pc = "done" =>
       /\ \A j, k \in 1..Len(result.rules) : j # k => result.rules[j].id # result.rules[k].id
       /\ DuplicateWarnings(result.warnings) = {}
       /\ DuplicateWarnings(validateRules(rules).warnings) = {}

\* A returned compilation of the same statement written twice.
C15_Witness ==
  /\ pc = "done"
  /\ Len(statements) = 2
  /\ statements[1].text = statements[2].text
  /\ Len(result.rules) = 2
  /\ result.rules[1].id.prefix = result.rules[2].id.prefix

\* The positions of a rule list that carry an identifier.
Occurrences(rs, id) == {k \in 1..Len(rs) : rs[k].id = id}

\* What validateRules returned for the list it was given.
C16_Validated ==
  pc = "validated" =>
    /\ \A k \in 1..Len(rules) :
         Cardinality({w \in DuplicateWarnings(warnings) : warnings[w].id = rules[k].id})
           = Cardinality(Occurrences(rules, rules[k].id)) - 1
    /\ \A w \in DuplicateWarnings(warnings) : Occurrences(rules, warnings[w].id) # {}
    /\ Len(errors) = Cardinality({k \in 1..Len(rules) : Incomplete(rules[k])})
    /\ \A e \in 1..Len(errors) : errors[e].message[1] = "Incomplete rule"

\* C16: validateRules gives k - 1 'Duplicate rule ID' warnings for an
\* identifier that occurs k times in the list, its only errors are those for
\* rules without condition or action, and it leaves the list as it was.
C16_DuplicatesWarnedOncePerRepeat == []C16_Validated /\ [][rules' = rules]_vars

\* A validated list in which one identifier occurs three times.
C16_Witness ==
  /\ pc = "validated"
  /\ Len(rules) = 3
  /\ Cardinality(Occurrences(rules, rules[1].id)) = 3
  /\ Cardinality(DuplicateWarnings(warnings)) = 2
  /\ errors = <<>>

(***************************************************************************)
(* Properties of one execution (specification SpecExec).                   *)
(***************************************************************************)
\* The passes of the rule loop that find rules in the registry.
AppliedPasses ==
  (IF request.teamId # "none" /\ customRules[request.teamId].present THEN {0} ELSE {})
  \cup {s \in 1..Len(request.standards) : customRules[request.standards[s]].present}

RulesOfPass(p) ==
  IF p = 0 THEN customRules[request.teamId].value
  ELSE customRules[request.standards[p]].value

\* The violations of one rule evaluation, in the order they were pushed.
ViolationsFrom(from) == SelectSeq(violations, LAMBDA x : x.from = from)

\* What holds of an execution that returned.
C6_Returned ==
  xpc = "done" =>
       \A p \in AppliedPasses : \A r \in 1..Len(RulesOfPass(p)) :
         <<p, r>> \notin thrown =>
           ViolationsFrom(<<p, r>>) = TryRule(RulesOfPass(p)[r], request, NoFault, <<p, r>>)

\* C6: an execution always returns, and when it returns every
\* rule whose evaluation did not throw has all its violations in the returned
\* sequence, whether or not another rule threw.
C6_OtherRulesStillReport == <>(xpc = "done") /\ []C6_Returned

\* A returned execution in which one rule threw and a later rule of the same
\* pass reported a violation.
C6_Witness ==
  /\ xpc = "done"
  /\ \E f \in thrown :
       \E k \in 1..Len(violations) :
         violations[k].from[1] = f[1] /\ violations[k].from[2] > f[2]

\* C7: the returned sequence holds no violation of a rule whose matcher or
\* action threw.
C7_ThrownRuleContributesNothing ==
  \A k \in 1..Len(violations) : violations[k].from \notin thrown

\* The violation the action of rule r of pass p makes of the k-th match of
\* its matcher on the request's content.
ViolationOfMatch(p, r, k) ==
  createViolation(RulesOfPass(p)[r].originalRule,
    findMatches(RulesOfPass(p)[r].originalRule.condition,
                request.content, request.language)[k])

\* C12: the violations of one application of a rule set are listed in the
\* order of the rules in the registered set, which is the order of their
\* statements, and the violations of one rule in the order of the matches of
\* its matcher.
C12_ViolationsInRegistrationOrder ==
  /\ \A i, j \in 1..Len(violations) :
       i < j =>
         \/ violations[i].from[1] < violations[j].from[1]
         \/ /\ violations[i].from[1] = violations[j].from[1]
            /\ violations[i].from[2] <= violations[j].from[2]
  /\ \A p \in AppliedPasses : \A r \in 1..Len(RulesOfPass(p)) :
       /\ \A k \in 1..Len(ViolationsFrom(<<p, r>>)) :
            ViolationsFrom(<<p, r>>)[k].v = ViolationOfMatch(p, r, k)
       /\ \A q \in 1..(r - 1) : RulesOfPass(p)[q].id.ord < RulesOfPass(p)[r].id.ord

\* A returned execution with violations of two rules of one pass, one of them
\* with two matches.
C12_Witness ==
  /\ xpc = "done"
  /\ thrown = {}
  /\ \E p \in AppliedPasses :
       /\ Len(RulesOfPass(p)) = 2
       /\ Len(ViolationsFrom(<<p, 1>>)) = 2
       /\ Len(ViolationsFrom(<<p, 2>>)) >= 1
       /\ ViolationsFrom(<<p, 1>>)[1].v.line < ViolationsFrom(<<p, 1>>)[2].v.line

\* The identifier whose rule set pass p applies.
C30_IdentifierOfPass(p) == IF p = 0 THEN request.teamId ELSE request.standards[p]

\* C30: in one request each registered rule set is applied at most once: an
\* identifier given both as context.teamId and in the standards list does not
\* make one of its rules report the same match twice in the returned
\* violations.
C30_RuleSetAppliedOnce ==
  xpc = "done" =>
    \A i, j \in 1..Len(violations) :
      (/\ i < j
       /\ C30_IdentifierOfPass(violations[i].from[1])
            = C30_IdentifierOfPass(violations[j].from[1])
       /\ violations[i].from[2] = violations[j].from[2]) =>
        violations[i].v # violations[j].v

\* The matches the matcher of rule r of pass p returns on the request.
MatchesOf(p, r) ==
  findMatches(RulesOfPass(p)[r].originalRule.condition, request.content, request.language)

\* The rule was compiled from a statement 'WHEN lines > N THEN ...'.
IsLinesAbove(rule) ==
  LET text == rule.originalRule.metadata.originalText
  IN /\ Len(text) >= 5
     /\ Lower(text[1]) = "when" /\ text[2] = "lines" /\ text[3] = ">"
     /\ text[4] \in NumberTokens /\ Lower(text[5]) = "then"

\* C17: the matcher of a metric rule returns one match, at line 1 and column
\* 1, when the metric of the content compares true with the threshold, and
\* none otherwise, and so many violations are reported; the rule compiled
\* from 'WHEN lines > N THEN ...' is a metric rule that reports one violation
\* exactly when the content has more than N lines.
C17_MetricRuleMatchesFileOnce ==
  xpc = "done" =>
    \A p \in AppliedPasses : \A r \in 1..Len(RulesOfPass(p)) :
      LET rule == RulesOfPass(p)[r]
          metric == rule.originalRule.condition.metric
      IN /\ IsLinesAbove(rule) => rule.originalRule.condition.type = "metric"
         /\ (rule.originalRule.condition.type = "metric" /\ <<p, r>> \notin thrown) =>
              /\ Len(MatchesOf(p, r)) = Len(ViolationsFrom(<<p, r>>))
              /\ Len(MatchesOf(p, r)) =
                   (IF compareMetric(calculateMetric(request.content, metric.name),
                                     metric.operator, metric.value) THEN 1 ELSE 0)
              /\ \A k \in 1..Len(MatchesOf(p, r)) :
                   /\ MatchesOf(p, r)[k].line = 1 /\ MatchesOf(p, r)[k].column = 1
                   /\ ViolationsFrom(<<p, r>>)[k].v.line = 1
                   /\ ViolationsFrom(<<p, r>>)[k].v.column = 1
              /\ IsLinesAbove(rule) =>
                   (Len(ViolationsFrom(<<p, r>>)) = 1
                      <=> Len(request.content)
                            > parseInt(rule.originalRule.metadata.originalText[4]))

\* A returned execution of the rule of 'WHEN lines > 1 THEN warn' on two
\* lines, with its one violation.
C17_Witness ==
  /\ xpc = "done"
  /\ Len(request.content) = 2
  /\ \E p \in AppliedPasses : \E r \in 1..Len(RulesOfPass(p)) :
       /\ IsLinesAbove(RulesOfPass(p)[r])
       /\ Len(ViolationsFrom(<<p, r>>)) = 1
       /\ ViolationsFrom(<<p, r>>)[1].v.line = 1

\* The lines of the request's content in which console.log occurs.
ConsoleLogLines ==
  {k \in 1..Len(request.content) :
     \E t \in 1..Len(request.content[k]) : request.content[k][t] = "console.log(x)"}

\* C18: the matcher of a pattern rule returns one match for every line in
\* which the pattern occurs, however often, and none for another line; a
\* match carries the 1-based line number and the whole line as context, and
\* the matches, and the violations made of them, are in ascending line order.
C18_PatternRuleMatchesOncePerLine ==
  xpc = "done" =>
    \A p \in AppliedPasses : \A r \in 1..Len(RulesOfPass(p)) :
      (/\ RulesOfPass(p)[r].originalRule.condition.type = "pattern"
       /\ RulesOfPass(p)[r].originalRule.condition.pattern.re = "console.log"
       /\ <<p, r>> \notin thrown) =>
        /\ Len(MatchesOf(p, r)) = Cardinality(ConsoleLogLines)
        /\ Len(ViolationsFrom(<<p, r>>)) = Cardinality(ConsoleLogLines)
        /\ \A k \in 1..Len(MatchesOf(p, r)) :
             /\ MatchesOf(p, r)[k].line \in ConsoleLogLines
             /\ MatchesOf(p, r)[k].context = request.content[MatchesOf(p, r)[k].line]
             /\ ViolationsFrom(<<p, r>>)[k].v.line = MatchesOf(p, r)[k].line
             /\ k > 1 => MatchesOf(p, r)[k - 1].line < MatchesOf(p, r)[k].line

\* A returned execution of a console.log rule on a content whose first line
\* has console.log twice and whose second line has none.
C18_Witness ==
  /\ xpc = "done"
  /\ request.content = << <<"console.log(x)", "console.log(x)">>, <<"function", "calc">> >>
  /\ \E p \in AppliedPasses : \E r \in 1..Len(RulesOfPass(p)) :
       /\ RulesOfPass(p)[r].originalRule.condition.type = "pattern"
       /\ <<p, r>> \notin thrown
       /\ Len(ViolationsFrom(<<p, r>>)) = 1

(***************************************************************************)
(* Properties of the registry under interleaving (specification SpecReg).  *)
(***************************************************************************)
\* C8: an analysis that reads the registry while the identifier's rule set is
\* being replaced reads the rule set registered before the replacement or the
\* one registered after it.
C8_ReaderSeesOldOrNew ==
  (observed.read /\ observed.during) => observed.rules \in observed.before \cup observed.after

\* The text passes validation: its compilation has no error, a confidence
\* above 0.7 and at least one usable rule.
PassesValidation(text) ==
  /\ parseQualitySpec(text).errors = <<>>
  /\ parseQualitySpec(text).metadata.confidence.num
       > 70 * parseQualitySpec(text).metadata.confidence.den
  /\ Len(parseQualitySpec(text).rules) > 0

\* What a createQualitySpec call does when it resumes after the validation
\* and after the loading of the rules.
C19_CreateStep ==
  \A s \in Slots :
    /\ (uop[s].op = "create" /\ upc[s] = "validating" /\ upc'[s] # "validating") =>
         IF PassesValidation(uop[s].spec.content)
         THEN /\ specStorage' = [specStorage EXCEPT ![uop[s].id] = Present(uop[s].spec)]
              /\ customRules' = customRules
              /\ upc'[s] = "loading"
         ELSE /\ specStorage' = specStorage
              /\ customRules' = customRules
              /\ upc'[s] = "idle" /\ ~uop'[s].success
    /\ (uop[s].op = "create" /\ upc[s] = "loading" /\ upc'[s] # "loading") =>
         /\ PassesValidation(uop[s].spec.content)
         /\ customRules' = [customRules EXCEPT ![uop[s].id] =
              Present(convertToExecutableRules(parseQualitySpec(uop[s].spec.content).rules))]
         /\ specStorage' = specStorage
         /\ upc'[s] = "idle" /\ uop'[s].success

\* Whatever is stored or registered passed validation.
C19_OnlyValid ==
  \A id \in StoreIds :
    /\ specStorage[id].present => PassesValidation(specStorage[id].value.content)
    /\ customRules[id].present =>
         \E text \in StoreContents :
           /\ PassesValidation(text)
           /\ customRules[id].value = convertToExecutableRules(parseQualitySpec(text).rules)

\* C19: createQualitySpec stores the specification and registers its rules
\* only when the text passes validation; when it does not, the call returns
\* success = false and changes neither the store nor the registry.
C19_CreateOnlyWhenValid == []C19_OnlyValid /\ [][C19_CreateStep]_vars

\* A createQualitySpec call that failed on an identifier with a stored
\* specification and registered rules, both still there.
C19_Witness ==
  \E s \in Slots :
    /\ upc[s] = "idle" /\ uop[s].op = "create" /\ ~uop[s].success
    /\ ~PassesValidation(uop[s].spec.content)
    /\ dret.call = 0
    /\ specStorage[uop[s].id].present /\ customRules[uop[s].id].present
    /\ customRules[uop[s].id] = uop[s].before

\* What a deleteQualitySpec call does and returns.
C20_DeleteStep ==
  \A id \in StoreIds :
    (dret' # dret /\ dret'.id = id) =>
      /\ dret'.returned = specStorage[id].present
      /\ dret'.returned =>
           /\ getQualitySpec(id)' = Null
           /\ getLoadedRules(id)' = <<>>
      /\ ~dret'.returned => specStorage' = specStorage /\ customRules' = customRules
      /\ \A other \in Identifiers \ {id} :
           specStorage'[other] = specStorage[other] /\ customRules'[other] = customRules[other]

\* C20: deleteQualitySpec(id) returns true exactly when a specification is
\* stored under id; after it returned true getQualitySpec(id) is null and
\* getLoadedRules(id) is empty; when it returns false neither the store nor
\* the registry changes.
C20_DeleteClearsStoreAndRules == [][C20_DeleteStep]_vars

\* A deleteQualitySpec call that returned true on an identifier with stored
\* specification and registered rules, and nothing of them is left.
C20_Witness ==
  /\ dret.call = ncalls /\ dret.returned
  /\ dret.storeBefore.present /\ dret.rulesBefore.present
  /\ getQualitySpec(dret.id) = Null
  /\ getLoadedRules(dret.id) = <<>>

\* An updateQualitySpec call in slot s returns without success in this step:
\* its validation failed, or nothing was stored under the identifier.
C21_FailedUpdateReturns(s) ==
  \/ upc[s] = "validating" /\ uop[s].op = "update" /\ upc'[s] = "idle"
  \/ /\ FreeSlot(s) /\ ncalls' # ncalls /\ dret' = dret /\ upc' = upc
     /\ uop'[s].op = "update"

\* C21: an updateQualitySpec call that fails (nothing stored under the
\* identifier, or the new content fails validation) returns success = false
\* and changes neither the store nor the registry; unless a delete ran while
\* it waited, the stored specification and the registered rules are the ones
\* it found when it was called.
C21_FailedUpdateChangesNothing ==
  [][\A s \in Slots :
       C21_FailedUpdateReturns(s) =>
         /\ ~uop'[s].success
         /\ specStorage' = specStorage /\ customRules' = customRules
         /\ ~uop'[s].deleted =>
              /\ specStorage'[uop'[s].id] = uop'[s].stored
              /\ customRules'[uop'[s].id] = uop'[s].before]_vars

\* An updateQualitySpec call whose content failed validation has returned;
\* the specification and the rules it found are still there.
C21_Witness ==
  \E s \in Slots :
    /\ upc[s] = "idle" /\ uop[s].op = "update" /\ ~uop[s].success /\ ~uop[s].deleted
    /\ ~PassesValidation(uop[s].spec.content)
    /\ uop[s].stored.present /\ uop[s].before.present
    /\ specStorage[uop[s].id] = uop[s].stored
    /\ customRules[uop[s].id] = uop[s].before

(***************************************************************************)
(* Properties of the store under overlapping calls (specification          *)
(* SpecStore).                                                             *)
(***************************************************************************)
\* An updateQualitySpec call in slot s stores its specification in this step.
C22_UpdateStores(s) ==
  upc[s] = "validating" /\ uop[s].op = "update" /\ upc'[s] = "loading"

\* C22: each successful updateQualitySpec sets the stored version to the
\* previously stored version a.b.c with the patch number increased by one,
\* a.b.(c+1), so that k successful updates add k to the patch number.
C22_PatchGrowsByOnePerUpdate ==
  [][\A s \in Slots :
       (C22_UpdateStores(s) /\ specStorage[uop[s].id].present
          /\ Len(specStorage[uop[s].id].value.version) = 3) =>
         specStorage'[uop[s].id].value.version
           = <<specStorage[uop[s].id].value.version[1],
               specStorage[uop[s].id].value.version[2],
               specStorage[uop[s].id].value.version[3] + 1>>]_vars

\* C25: when every createQualitySpec / updateQualitySpec / deleteQualitySpec
\* call made on an identifier has returned, the registered rules of the
\* identifier are the ones compiled from the text stored under it, and there
\* are none when nothing is stored under it.
C25_RegistryAgreesWithStore ==
  (\A s \in Slots : upc[s] = "idle") =>
    \A id \in StoreIds :
      IF specStorage[id].present
      THEN customRules[id] = Present(LoadedRules(specStorage[id].value.content))
      ELSE ~customRules[id].present

(***************************************************************************)
(* The commit gate (SpecGate).                                             *)
(***************************************************************************)
\* The number of violations of a severity over all the results pushed.
C23_Count(severity) ==
  Cardinality(UNION {{<<k, j>> : j \in {i \in DOMAIN analysisResults[k].violations :
                                          analysisResults[k].violations[i] = severity}} :
                     k \in DOMAIN analysisResults})

\* The average quality score of the aggregate: the mean of the scores pushed,
\* rounded to the nearest integer, halves upwards.
C23_Average ==
  CHOOSE a \in 0..100 :
    /\ 2 * Len(analysisResults) * a <= 2 * SumScores(analysisResults) + Len(analysisResults)
    /\ 2 * SumScores(analysisResults) + Len(analysisResults) < 2 * Len(analysisResults) * (a + 1)

C23_CountBreach ==
  \/ config.thresholds.blockOnCritical
       /\ C23_Count("critical") > config.thresholds.maxCriticalViolations
  \/ C23_Count("error") > config.thresholds.maxErrorViolations
  \/ C23_Count("warning") > config.thresholds.maxWarningViolations

\* The decision the thresholds of the configuration give for the results pushed.
C23_Decision ==
  IF C23_CountBreach THEN "block"
  ELSE IF C23_Average < config.thresholds.minQualityScore
  THEN IF config.thresholds.warnOnLowScore THEN "warn" ELSE "block"
  ELSE "allow"

\* C23: with the gate enabled and at least one file analysed, the decision is
\* BLOCK when (blockOnCritical and the critical count exceeds
\* maxCriticalViolations) or the error count exceeds maxErrorViolations or the
\* warning count exceeds maxWarningViolations; otherwise, when the average
\* quality score of the aggregate is below minQualityScore, it is WARN with
\* warnOnLowScore and BLOCK without it; otherwise it is ALLOW.
C23_DecisionByThresholds ==
  (gpc = "done" /\ config.enabled /\ Len(analysisResults) >= 1) =>
    commitResult.action = C23_Decision

\* A count breach blocked a commit whose score is low and whose configuration
\* has warnOnLowScore set.
C23_Witness ==
  /\ gpc = "done" /\ config.enabled /\ Len(analysisResults) >= 1
  /\ C23_CountBreach
  /\ C23_Average < config.thresholds.minQualityScore
  /\ config.thresholds.warnOnLowScore
  /\ commitResult.action = "block"

\* The k-th exclude pattern of the configuration converts to a regular
\* expression.
C24_Converts(k) == ~CompileRegExp(RegExpSource(config.excludePatterns[k])).threw

\* The path matches the k-th exclude pattern of the configuration.
C24_Matches(path, k) ==
  /\ C24_Converts(k)
  /\ RegExpTest(CompileRegExp(RegExpSource(config.excludePatterns[k])).items, path)

\* isFileExcluded returns true for the path: a pattern matches it, and every
\* pattern tried before it converts.
C24_Excluded(path) ==
  \E k \in DOMAIN config.excludePatterns :
    C24_Matches(path, k) /\ \A j \in 1..(k - 1) : C24_Converts(j)

\* isFileExcluded throws for the path: a pattern does not convert, and none
\* of the patterns tried before it matches the path.
C24_Throws(path) ==
  \E k \in DOMAIN config.excludePatterns :
    ~C24_Converts(k) /\ \A j \in 1..(k - 1) : ~C24_Matches(path, j)

C24_ReturnedWithoutAnalysis(action) ==
  gpc = "done" /\ commitResult.action = action /\ analysed = {}

\* C24 as stated: enforceQualityGate returns ALLOW without analysing any file
\* when the configuration has enabled = false, and when every changed file is
\* deleted or matches an exclude pattern of the configuration.
C24_AllowWithoutAnalysis ==
  gpc # "idle" =>
    /\ ~config.enabled => C24_ReturnedWithoutAnalysis("allow")
    /\ (\A c \in DOMAIN event.changes :
          \/ event.changes[c].changeType = "deleted"
          \/ \E k \in DOMAIN config.excludePatterns : C24_Matches(event.changes[c].filePath, k))
         => C24_ReturnedWithoutAnalysis("allow")

\* C24: enforceQualityGate returns ALLOW without analysing any file when the
\* configuration has enabled = false, and, with the gate enabled, when every
\* changed file is deleted or excluded by isFileExcluded; when isFileExcluded
\* throws for a changed file that is not deleted, because an exclude pattern
\* tried for it does not convert to a regular expression, the call returns
\* WARN, also without analysing any file.
C24_AllowOrWarnWithoutAnalysis ==
  gpc # "idle" =>
    /\ ~config.enabled => C24_ReturnedWithoutAnalysis("allow")
    /\ (config.enabled
          /\ \A c \in DOMAIN event.changes :
               \/ event.changes[c].changeType = "deleted"
               \/ C24_Excluded(event.changes[c].filePath))
         => C24_ReturnedWithoutAnalysis("allow")
    /\ (config.enabled
          /\ \E c \in DOMAIN event.changes :
               /\ event.changes[c].changeType # "deleted"
               /\ C24_Throws(event.changes[c].filePath))
         => C24_ReturnedWithoutAnalysis("warn")

\* An enabled gate allowed a commit of one deleted and one excluded file.
C24_Witness ==
  /\ C24_ReturnedWithoutAnalysis("allow")
  /\ config.enabled
  /\ \E c, d \in DOMAIN event.changes :
       /\ event.changes[c].changeType = "deleted"
       /\ event.changes[d].changeType # "deleted"
       /\ C24_Excluded(event.changes[d].filePath)

\* enforceQualityGate returned the decision made after its loop.
C29_Decided == gpc = "done" /\ commitResult.reason = "decision"

\* analyzeCode was called for every file left by the filter, and the results
\* pushed are those of the files whose call did not throw, in their order.
C29_FailuresSkipped ==
  /\ analysed = 1..Len(filesToAnalyze)
  /\ Len(analysisResults) = Cardinality(analysed \ failed)
  /\ \A k \in DOMAIN analysisResults : analysisResults[k].file \in analysed \ failed
  /\ \A j, k \in DOMAIN analysisResults :
       j < k => analysisResults[j].file < analysisResults[k].file

\* The aggregate of no result at all: no violations, average score 100.
C29_EmptyAggregate == commitResult.violations = <<>> /\ commitResult.qualityScore = 100

\* C29 as stated: a file whose analysis throws is skipped and the remaining
\* files are still analysed; the decision is made from the analysed files
\* only, and when every analysis fails the aggregate has no violations and
\* average score 100, and the result is ALLOW.
C29_AllFailedAllows ==
  C29_Decided =>
    /\ C29_FailuresSkipped
    /\ analysisResults # <<>> => commitResult.action = C23_Decision
    /\ analysisResults = <<>> => C29_EmptyAggregate /\ commitResult.action = "allow"

\* C29: a file whose analysis throws is skipped and the remaining files are
\* still analysed; the decision is made from the analysed files only, and
\* when every analysis fails the aggregate has no violations and average
\* score 100, and the result is ALLOW unless a limit of the configuration is
\* below its range: it is BLOCK when maxErrorViolations or
\* maxWarningViolations (or, with blockOnCritical, maxCriticalViolations) is
\* negative, and otherwise, when minQualityScore is above 100, WARN with
\* warnOnLowScore and BLOCK without it.
C29_AllFailedDecidedOnEmptyAggregate ==
  C29_Decided =>
    /\ C29_FailuresSkipped
    /\ analysisResults # <<>> => commitResult.action = C23_Decision
    /\ analysisResults = <<>> =>
         /\ C29_EmptyAggregate
         /\ commitResult.action =
              IF \/ config.thresholds.blockOnCritical
                      /\ config.thresholds.maxCriticalViolations < 0
                 \/ config.thresholds.maxErrorViolations < 0
                 \/ config.thresholds.maxWarningViolations < 0
              THEN "block"
              ELSE IF config.thresholds.minQualityScore > 100
              THEN IF config.thresholds.warnOnLowScore THEN "warn" ELSE "block"
              ELSE "allow"

\* The analysis of the first of two files threw, the second was analysed, and
\* the commit was decided from the second file alone.
C29_Witness ==
  /\ C29_Decided
  /\ Len(filesToAnalyze) = 2 /\ failed = {1}
  /\ Len(analysisResults) = 1 /\ analysisResults[1].file = 2
  /\ commitResult.violations = analysisResults[1].violations
  /\ commitResult.qualityScore = analysisResults[1].qualityScore

\* The analysis of every file threw and the commit was allowed.
C29_WitnessAllFailed ==
  /\ C29_Decided
  /\ Len(filesToAnalyze) >= 1 /\ failed = analysed /\ analysisResults = <<>>
  /\ commitResult.action = "allow"

(***************************************************************************)
(* The notification service (SpecNotify).                                  *)
(***************************************************************************)
\* C26: a user's registration follows that user's most recent connection:
\* as long as the socket of the most recent connection is open it is the one
\* registered for the user, whatever close or error event an earlier socket
\* of the same user has had, and feedback for the user is sent to it.
C26_RegistrationFollowsLatest ==
  /\ delivered.newest # NoSocket =>
       delivered.sent /\ delivered.socket = delivered.newest
  /\ \A u \in NoteUsers :
       (latest[u] # NoSocket /\ sockets[latest[u]].state = "open") =>
         connections[u] = latest[u]

====
